---- MODULE Spec2Model ----
(***************************************************************************)
(* One exchange of llm_proxy: the request handler (ChatHandler /           *)
(* GenerateHandler ServeHTTP), the backend adapter it calls (OpenAIBackend *)
(* or OllamaBackend) and the adapter's parsing goroutine, which talk over  *)
(* the buffered channel respChan and the shared *BackendMetadata.          *)
(*                                                                         *)
(* Text is a sequence of characters, so that Len and \o are the byte       *)
(* length and the concatenation of the Go strings.                         *)
(*                                                                         *)
(* metadata.RawResponse is written by the parsing goroutine and read by    *)
(* the handler without synchronisation.  A read that races with the store  *)
(* returns the value before or the value after it: both are reachable      *)
(* here, because the store and the read are separate steps.                *)
(***************************************************************************)
EXTENDS Integers, Sequences, FiniteSets, TLC

\* Bounds of the model.
MaxLines == 3
MaxFrags == 4
MaxIndex == 1

\* make(chan models.ChatResponse, 10)
ChanCap == 10

VARIABLES
    backendType,        \* config.Backend.Type: "openai" | "ollama"
    endpoint,           \* "chat" | "generate"
    stream,             \* req.Stream
    logRawResponses,    \* config.Server.LogRawResponses
    chatTextInjection,  \* config.ChatTextInjection: Enabled, Text, Mode
    toolBlacklist,      \* config.Backend.ToolBlacklist, as a set of names
    reqMethod,          \* r.Method
    reqBody,            \* r.Body: how it reads and parses, and what it holds
    reqMessages,        \* req.Messages, as the handler passes them on
    reqTools,           \* req.Tools, as the handler passes them on
    originalLastMessage, \* handler: originalLastMessage
    hpc,                \* handler: received, decoded, relay, finish, done, rejected
    clientConnected,    \* the client's connection is open
    clientStatus,       \* HTTP status the client was answered with (0: none yet)
    clientBody,         \* body of an error answer
    ctxDone,            \* r.Context() is cancelled
    responses,          \* handler: var responses []models.ChatResponse
    fullResponse,       \* handler: fullResponse strings.Builder
    written,            \* increments encoder.Encode wrote without error
    logs,               \* the Log Collector: entries passed to db.Log
    ppc,                \* parsing goroutine: idle, scan, sendContent, sendTools,
                        \* sendFinal, store, returned
    rawResponse,        \* goroutine: rawResponse strings.Builder, as lines
    tokenCount,         \* goroutine: tokenCount
    sentFinalMessage,   \* goroutine: sentFinalMessage
    finalDoneReason,    \* goroutine: finalDoneReason
    toolCallsState,     \* goroutine: toolCallsState map[int]struct{ID,Name,Arguments}
    pending,            \* goroutine: the increment of the send it is at
    eof,                \* goroutine: the scan loop has ended
    respChan,           \* buffered channel contents
    chanClosed,         \* close(respChan) has run
    metaRawResponse,    \* metadata.RawResponse, as lines
    sent,               \* history: every increment sent on respChan
    sentAfterCancel,    \* history: an increment was sent while ctx was cancelled
    frags,              \* fragments applied to toolCallsState, in arrival order
    wire,               \* lines of the backend's body the scanner has returned
    metaRawRequest,     \* metadata.RawRequest: the request marshalled for the backend
    backendMeta,        \* handler: backendMeta, "nil" or "set" (a *BackendMetadata)
    fileDatabase,       \* the [database] section of the configuration file
    cfgDatabase,        \* cfg.Database
    mpc,                \* main: start, loaded, serving, sendDone, recvDone, stopped
    cleanupStarted,     \* go startCleanupTask(...) has run
    tpc,                \* startCleanupTask: none, startup, select, stopping, returned
    cleanupDoneCloses,  \* how often close(cleanupDone) has run
    sendOnClosed,       \* main sent on cleanupDone after it was closed
    dbRows,             \* number of rows of the request table
    modelsAnswer,       \* the backend's answer to the adapter's last ListModels
    modelsResp          \* what that ListModels returned

vars == <<backendType, endpoint, stream, logRawResponses, chatTextInjection,
          toolBlacklist, reqMethod, reqBody, reqMessages, reqTools,
          originalLastMessage, hpc, clientConnected,
          clientStatus, clientBody, ctxDone, responses, fullResponse, written,
          logs, ppc, rawResponse, tokenCount, sentFinalMessage, finalDoneReason,
          toolCallsState, pending, eof, respChan, chanClosed, metaRawResponse,
          sent, sentAfterCancel, frags, wire, metaRawRequest, backendMeta,
          fileDatabase,
          cfgDatabase, mpc, cleanupStarted, tpc, cleanupDoneCloses, sendOnClosed,
          dbRows, modelsAnswer, modelsResp>>

\* The configuration and the request as received: nothing writes them.
fixedVars == <<backendType, endpoint, stream, logRawResponses, chatTextInjection,
               toolBlacklist, reqMethod, reqBody>>

\* The decoded request: written once, when the handler decodes and transforms it.
requestVars == <<reqMessages, reqTools, originalLastMessage>>

\* The process around the exchanges: main, the cleanup task, the model list.
\* The cleanup task and the channel main stops it with.
taskVars == <<tpc, cleanupDoneCloses, sendOnClosed>>

serviceVars == <<fileDatabase, cfgDatabase, mpc, cleanupStarted, taskVars, dbRows,
                 modelsAnswer, modelsResp>>

\* What the adapter hands back to the handler beside the channel.
metaVars == <<metaRawRequest, backendMeta>>

configVars == <<fixedVars, requestVars, metaVars, wire, serviceVars>>

\* configVars without the lines read from the backend.
unreadVars == <<fixedVars, requestVars, metaVars, serviceVars>>
handlerVars == <<hpc, clientStatus, clientBody, responses, fullResponse, written, logs>>
parserVars == <<ppc, rawResponse, tokenCount, sentFinalMessage, finalDoneReason,
                toolCallsState, pending, eof, frags>>

-----------------------------------------------------------------------------
(* Data *)

EmptyText == <<>>

\* models.ChatResponse / models.GenerateResponse, the fields the handler and
\* the adapters read or set (a GenerateResponse has no message: role "" and
\* no tool calls).
Incr(content, role, toolCalls, done, doneReason, evalCount, promptEvalCount, loadDuration) ==
    [content |-> content, role |-> role, toolCalls |-> toolCalls, done |-> done,
     doneReason |-> doneReason, evalCount |-> evalCount,
     promptEvalCount |-> promptEvalCount, loadDuration |-> loadDuration,
     totalDuration |-> 0, evalDuration |-> 0]

\* totalDuration := time.Since(startTime).Nanoseconds();
\* TotalDuration: totalDuration + 1, EvalDuration: totalDuration
Timed(incr, elapsed) ==
    [incr EXCEPT !.totalDuration = elapsed + 1, !.evalDuration = elapsed]

\* Values of time.Since(startTime).Nanoseconds().
ElapsedNs == {0, 3}

NoIncr == Incr(EmptyText, "", <<>>, FALSE, "", 0, 0, 0)

\* One element of choice.Delta.ToolCalls: isMap is the tc.(map[string]interface{})
\* assertion, hasIndex the tcMap["index"].(float64) one; id, name and args are ""
\* when the field is absent or no string.
Frag(isMap, hasIndex, index, id, name, args) ==
    [isMap |-> isMap, hasIndex |-> hasIndex, index |-> index, id |-> id,
     name |-> name, args |-> args]

\* One line of an OpenAI-style SSE body, as the scan loop sees it:
\*   noprefix  no "data: " prefix          sentinel  "data: [DONE]"
\*   badjson   json.Unmarshal fails        nochoice  len(Choices) = 0
\*   chunk     Choices[0] with FinishReason finish; text is choice.Text
\*             (generate) or Delta.Content (chat); delta is Delta != nil
SseLine(kind, finish, text, role, delta, toolCalls) ==
    [kind |-> kind, finish |-> finish, text |-> text, role |-> role,
     delta |-> delta, toolCalls |-> toolCalls]

SseOther(kind) == SseLine(kind, "", EmptyText, "", FALSE, <<>>)
GenChunk(text, finish) == SseLine("chunk", finish, text, "", FALSE, <<>>)
ChatChunk(text, role, finish) == SseLine("chunk", finish, text, role, TRUE, <<>>)
ToolChunk(tcs, finish) == SseLine("chunk", finish, EmptyText, "", TRUE, tcs)

\* One line of an Ollama NDJSON body: badjson, or json with the fields of the
\* increment it decodes to.
OllamaLine(kind, content, role, done, loadDuration) ==
    [kind |-> kind, text |-> content, role |-> role, done |-> done,
     loadDuration |-> loadDuration, toolCalls |-> <<>>]

\* A non-streaming OpenAI body: readerr (io.ReadAll fails), badjson, nochoice,
\* nomessage (Choices[0].Message == nil) or ok.
Body(kind, finish, text, promptTokens, completionTokens) ==
    [kind |-> kind, finish |-> finish, text |-> text, role |-> "assistant",
     promptTokens |-> promptTokens, completionTokens |-> completionTokens,
     toolCalls |-> <<>>]

RECURSIVE SumLen(_)
SumLen(seq) == IF seq = <<>> THEN 0 ELSE Len(Head(seq)) + SumLen(Tail(seq))

\* Bytes of one raw line: the text it carries plus its newline.  The framing
\* ("data: ", the JSON around the text) only adds to it.
RECURSIVE ArgsLen(_)
ArgsLen(tcs) == IF tcs = <<>> THEN 0 ELSE Len(Head(tcs).args) + ArgsLen(Tail(tcs))

LineLen(line) == Len(line.text) + ArgsLen(line.toolCalls) + 1

RECURSIVE RawLen(_)
RawLen(lines) == IF lines = <<>> THEN 0 ELSE LineLen(Head(lines)) + RawLen(Tail(lines))

RECURSIVE Contents(_)
Contents(incrs) ==
    IF incrs = <<>> THEN <<>> ELSE <<Head(incrs).content>> \o Contents(Tail(incrs))

-----------------------------------------------------------------------------
(* Tool-call accumulation: handleStreamingChat and buildToolCallsArray *)

EmptyState == [i \in {} |-> 0]

ZeroCall == [ID |-> "", Name |-> "", Arguments |-> EmptyText]

\* Mutant of AccumulateID: the ID is kept once it is set.
AccumulateIDFirst(old, id) == IF old # "" THEN old ELSE id

\* if id, ok := tcMap["id"].(string); ok && id != "" { state.ID = id }
AccumulateID(old, id) == IF id # "" THEN id ELSE old

\* if name, ok := fn["name"].(string); ok && name != "" { state.Name = name }
AccumulateName(old, name) == IF name # "" THEN name ELSE old

\* Mutant of AccumulateArguments: = instead of +=.
AccumulateArgumentsAssign(old, args) == args

\* if args, ok := fn["arguments"].(string); ok { state.Arguments += args }
AccumulateArguments(old, args) == old \o args

\* The body of the loop over choice.Delta.ToolCalls for one element.
Accumulate(state, tc) ==
    IF ~tc.isMap THEN state
    ELSE LET index == IF tc.hasIndex THEN tc.index ELSE 0
             old == IF index \in DOMAIN state THEN state[index] ELSE ZeroCall
             new == [ID |-> AccumulateID(old.ID, tc.id),
                     Name |-> AccumulateName(old.Name, tc.name),
                     Arguments |-> AccumulateArguments(old.Arguments, tc.args)]
         IN [i \in DOMAIN state \cup {index} |-> IF i = index THEN new ELSE state[i]]

RECURSIVE AccumulateAll(_, _)
AccumulateAll(state, tcs) ==
    IF tcs = <<>> THEN state
    ELSE AccumulateAll(Accumulate(state, Head(tcs)), Tail(tcs))

\* json.Unmarshal of an arguments string over the characters { } 1: the texts
\* that are JSON are "{}" and the numbers 1, 11, 111, ...
IsJSON(text) ==
    \/ text = <<"{", "}">>
    \/ text # <<>> /\ \A i \in 1..Len(text) : text[i] = "1"

\* argsObj of buildToolCallsArray: the parsed value, the string as it is when
\* parsing fails, an empty object for an empty string.
ArgsObj(arguments) ==
    IF arguments = <<>> THEN [type |-> "object", of |-> <<>>]
    ELSE IF IsJSON(arguments)
         THEN [type |-> IF arguments[1] = "{" THEN "object" ELSE "number",
               of |-> arguments]
         ELSE [type |-> "string", of |-> arguments]

MaxOf(S) == IF S = {} THEN -1 ELSE CHOOSE m \in S : \A x \in S : x <= m

\* maxIndex := -1; for idx := range toolCallsState { if idx > maxIndex ... }
MaxIndexOf(state) == MaxOf(DOMAIN state \cup {-1})

\* toolCall := map{"function": map{"name": state.Name, "arguments": argsObj}}
ToolCallOf(call) == [name |-> call.Name, arguments |-> ArgsObj(call.Arguments)]

\* for i := 0; i <= maxIndex; i++ { state, exists := ...; if !exists { continue } ... }
RECURSIVE BuildFrom(_, _, _)
BuildFrom(state, i, maxIndex) ==
    IF i > maxIndex THEN <<>>
    ELSE (IF i \in DOMAIN state THEN <<ToolCallOf(state[i])>> ELSE <<>>)
         \o BuildFrom(state, i + 1, maxIndex)

buildToolCallsArray(state) == BuildFrom(state, 0, MaxIndexOf(state))

-----------------------------------------------------------------------------
(* The translating adapter's increments *)

\* choice.FinishReason != "" && choice.FinishReason != "null"
IsFinish(line) == line.finish # "" /\ line.finish # "null"

\* Mutant of GenContentIncr: the text is not carried.
GenContentIncrNoText(text) == Incr(EmptyText, "", <<>>, FALSE, "", 0, 0, 0)

\* models.GenerateResponse{Response: text, Done: false}
GenContentIncr(text) == Incr(text, "", <<>>, FALSE, "", 0, 0, 0)

\* role := choice.Delta.Role; if role == "" { role = "assistant" }
RoleOrAssistant(role) == IF role = "" THEN "assistant" ELSE role

\* Mutant of ChatContentIncr: the role is always "assistant".
ChatContentIncrAssistant(text, role) ==
    Incr(text, "assistant", <<>>, FALSE, "", 0, 0, 0)

\* models.ChatResponse{Message: {Role: role, Content: choice.Delta.Content}, Done: false}
ChatContentIncr(text, role) ==
    Incr(text, RoleOrAssistant(role), <<>>, FALSE, "", 0, 0, 0)

\* models.ChatResponse{Message: {Role: "assistant", ToolCalls: toolCalls}, Done: false}
ToolsIncr(state) ==
    Incr(EmptyText, "assistant", buildToolCallsArray(state), FALSE, "", 0, 0, 0)

\* The final increment: Done true, DoneReason, PromptEvalCount 1, EvalCount
\* tokenCount; the chat one has role "assistant" and LoadDuration 1.
FinalIncr(ep, reason, count) ==
    IF ep = "chat" THEN Incr(EmptyText, "assistant", <<>>, TRUE, reason, count, 1, 1)
    ELSE Incr(EmptyText, "", <<>>, TRUE, reason, count, 1, 0)

\* Mutant of CountText: the bytes of the text are counted, not the chunk.
CountTextBytes(count, text) == count + Len(text)

\* text := choice.Text; if text != "" { tokenCount++ }
CountText(count, text) == IF text # EmptyText THEN count + 1 ELSE count

-----------------------------------------------------------------------------
(* The channel *)

\* respChan <- x can complete: the buffer has room.  (The handler receives
\* through the buffer; a receive takes the head.)
CanSend == Len(respChan) < ChanCap

\* respChan <- incr
ChanSend(incr) ==
    /\ CanSend
    /\ respChan' = Append(respChan, incr)
    /\ sent' = Append(sent, incr)
    /\ sentAfterCancel' = (sentAfterCancel \/ ctxDone)

NoSend == UNCHANGED <<respChan, sent, sentAfterCancel>>

\* The goroutine returns: the deferred close(respChan) runs.
Return == ppc' = "returned" /\ chanClosed' = TRUE

-----------------------------------------------------------------------------
(* OpenAIBackend.handleStreamingCompletion *)

\* Mutant of RawCapture: the line is recorded after the prefix check.
RawCaptureData(raw, line) == IF line.kind = "noprefix" THEN raw ELSE Append(raw, line)

\* rawResponse.WriteString(line); rawResponse.WriteString("\n")
RawCapture(raw, line) == Append(raw, line)

\* Mutant of Skipped: the error of json.Unmarshal is ignored.
SkippedUnlessBadJSON(line) == line.kind \notin {"chunk", "badjson"}

\* The line has no "data: " prefix, is the [DONE] sentinel, does not parse or
\* has no choice: continue.
Skipped(line) == line.kind # "chunk"

\* One turn of the scan loop on a line, up to the send it reaches.
handleStreamingCompletionLine(line) ==
    /\ backendType = "openai" /\ endpoint = "generate" /\ stream
    /\ ppc = "scan"
    /\ wire' = Append(wire, line)
    /\ rawResponse' = RawCapture(rawResponse, line)
    /\ IF Skipped(line)
       THEN UNCHANGED <<ppc, tokenCount, finalDoneReason, pending>>
       ELSE IF IsFinish(line) /\ ~sentFinalMessage
       THEN /\ finalDoneReason' = line.finish
            /\ ppc' = "sendFinal"
            /\ UNCHANGED <<tokenCount, pending>>
       ELSE /\ tokenCount' = CountText(tokenCount, line.text)
            /\ pending' = GenContentIncr(line.text)
            /\ ppc' = "sendContent"
            /\ UNCHANGED finalDoneReason
    /\ NoSend
    /\ UNCHANGED <<sentFinalMessage, toolCallsState, eof, frags, chanClosed,
                   metaRawResponse, ctxDone, clientConnected>>
    /\ UNCHANGED <<unreadVars, handlerVars>>

(* OpenAIBackend.handleStreamingChat *)

\* The chunk is accumulated: Delta.ToolCalls != nil && len(...) > 0.
HasToolCalls(line) == line.delta /\ Len(line.toolCalls) > 0

handleStreamingChatLine(line) ==
    /\ backendType = "openai" /\ endpoint = "chat" /\ stream
    /\ ppc = "scan"
    /\ wire' = Append(wire, line)
    /\ rawResponse' = RawCapture(rawResponse, line)
    /\ IF Skipped(line)
       THEN UNCHANGED <<ppc, tokenCount, finalDoneReason, pending, toolCallsState, frags>>
       ELSE IF IsFinish(line) /\ ~sentFinalMessage
       THEN /\ finalDoneReason' = line.finish
            /\ ppc' = IF DOMAIN toolCallsState # {} THEN "sendTools" ELSE "sendFinal"
            /\ UNCHANGED <<tokenCount, pending, toolCallsState, frags>>
       ELSE IF HasToolCalls(line)
       THEN /\ toolCallsState' = AccumulateAll(toolCallsState, line.toolCalls)
            /\ frags' = frags \o line.toolCalls
            /\ UNCHANGED <<ppc, tokenCount, finalDoneReason, pending>>
       ELSE IF line.delta /\ line.text # EmptyText
       THEN /\ tokenCount' = tokenCount + 1
            /\ pending' = ChatContentIncr(line.text, line.role)
            /\ ppc' = "sendContent"
            /\ UNCHANGED <<finalDoneReason, toolCallsState, frags>>
       ELSE UNCHANGED <<ppc, tokenCount, finalDoneReason, pending, toolCallsState, frags>>
    /\ NoSend
    /\ UNCHANGED <<sentFinalMessage, eof, chanClosed, metaRawResponse, ctxDone,
                   clientConnected>>
    /\ UNCHANGED <<unreadVars, handlerVars>>

\* Mutant of AfterSend: the scan loop goes on after a done increment.
AfterSendScan(backend, incr) == "scan"

\* OllamaBackend only: if ollamaResp.Done { metadata.RawResponse = ...; return }
AfterSend(backend, incr) == IF backend = "ollama" /\ incr.done THEN "store" ELSE "scan"

\* select { case respChan <- ollamaResp: ... }: the send is chosen.
SelectSend ==
    /\ ppc = "sendContent"
    /\ ChanSend(pending)
    /\ ppc' = AfterSend(backendType, pending)
    /\ UNCHANGED <<rawResponse, tokenCount, sentFinalMessage, finalDoneReason,
                   toolCallsState, pending, eof, frags, chanClosed, metaRawResponse,
                   ctxDone, clientConnected>>
    /\ UNCHANGED <<configVars, handlerVars>>

\* select { ... case <-ctx.Done(): metadata.RawResponse = rawResponse.String(); return }
SelectCtxDone ==
    /\ ppc = "sendContent"
    /\ ctxDone
    /\ metaRawResponse' = rawResponse
    /\ Return
    /\ NoSend
    /\ UNCHANGED <<rawResponse, tokenCount, sentFinalMessage, finalDoneReason,
                   toolCallsState, pending, eof, frags, ctxDone, clientConnected>>
    /\ UNCHANGED <<configVars, handlerVars>>

\* scanner.Scan() returns false (the transport closed, the client timeout
\* fired, or the read failed on the cancelled context); then
\* metadata.RawResponse = rawResponse.String() and the sends after the loop.
StreamEnd ==
    /\ backendType = "openai" /\ stream
    /\ ppc = "scan"
    /\ eof' = TRUE
    /\ metaRawResponse' = rawResponse
    /\ IF sentFinalMessage
       THEN Return
       ELSE /\ ppc' = IF DOMAIN toolCallsState # {} THEN "sendTools" ELSE "sendFinal"
            /\ UNCHANGED chanClosed
    /\ NoSend
    /\ UNCHANGED <<rawResponse, tokenCount, sentFinalMessage, finalDoneReason,
                   toolCallsState, pending, frags, ctxDone, clientConnected>>
    /\ UNCHANGED <<configVars, handlerVars>>

\* Mutant of SendTools: the loop goes on after the tool-call set without
\* the final increment.
SendToolsNoFinal ==
    /\ ppc = "sendTools"
    /\ ChanSend(ToolsIncr(toolCallsState))
    /\ ppc' = "scan"
    /\ UNCHANGED <<rawResponse, tokenCount, sentFinalMessage, finalDoneReason,
                   toolCallsState, pending, eof, frags, chanClosed, metaRawResponse,
                   ctxDone, clientConnected>>
    /\ UNCHANGED <<configVars, handlerVars>>

\* respChan <- models.ChatResponse{... ToolCalls: toolCalls ..., Done: false}
SendTools ==
    /\ ppc = "sendTools"
    /\ ChanSend(ToolsIncr(toolCallsState))
    /\ ppc' = "sendFinal"
    /\ UNCHANGED <<rawResponse, tokenCount, sentFinalMessage, finalDoneReason,
                   toolCallsState, pending, eof, frags, chanClosed, metaRawResponse,
                   ctxDone, clientConnected>>
    /\ UNCHANGED <<configVars, handlerVars>>

\* Mutant of DoneReasonNow: the final increment after the loop reuses
\* finalDoneReason.
DoneReasonStale == finalDoneReason

\* DoneReason of the final increment: finalDoneReason in the loop, "stop" after it.
DoneReasonNow == IF eof THEN "stop" ELSE finalDoneReason

\* respChan <- the final increment; in the loop: sentFinalMessage = true; continue
SendFinal ==
    /\ ppc = "sendFinal"
    /\ \E elapsed \in ElapsedNs :
           ChanSend(Timed(FinalIncr(endpoint, DoneReasonNow, tokenCount), elapsed))
    /\ IF eof
       THEN Return /\ UNCHANGED sentFinalMessage
       ELSE ppc' = "scan" /\ sentFinalMessage' = TRUE /\ UNCHANGED chanClosed
    /\ UNCHANGED <<rawResponse, tokenCount, finalDoneReason, toolCallsState,
                   pending, eof, frags, metaRawResponse, ctxDone, clientConnected>>
    /\ UNCHANGED <<configVars, handlerVars>>

-----------------------------------------------------------------------------
(* OpenAIBackend.handleNonStreamingCompletion / handleNonStreamingChat *)

\* Mutant of DoneReasonOf: the backend's finish reason is not taken over.
DoneReasonStop(finish) == "stop"

\* doneReason := "stop"; if choice.FinishReason != "" { doneReason = choice.FinishReason }
DoneReasonOf(finish) == IF finish # "" THEN finish ELSE "stop"

\* promptTokens := 1; if openaiResp.Usage.PromptTokens > 0 { promptTokens = ... }
TokensOrOne(n) == IF n > 0 THEN n ELSE 1

\* The one increment of a non-streaming answer: handleNonStreamingChat sets
\* the durations, handleNonStreamingCompletion leaves them at zero.
NonStreamingIncr(ep, body, elapsed) ==
    LET incr == Incr(body.text, IF ep = "chat" THEN body.role ELSE "",
                     body.toolCalls, TRUE, DoneReasonOf(body.finish),
                     TokensOrOne(body.completionTokens),
                     TokensOrOne(body.promptTokens), IF ep = "chat" THEN 1 ELSE 0)
    IN IF ep = "chat" THEN Timed(incr, elapsed) ELSE incr

\* The body has a first choice (and, for chat, Choices[0].Message != nil).
HasChoice(ep, body) == body.kind = "ok" \/ (ep = "generate" /\ body.kind = "nomessage")

\* The whole function: the channel is empty and has room, so its one send
\* never waits.
handleNonStreaming(body) ==
    /\ backendType = "openai" /\ ~stream
    /\ ppc = "read"
    /\ rawResponse' = IF body.kind = "readerr" THEN rawResponse ELSE <<body>>
    /\ metaRawResponse' = IF body.kind = "readerr" THEN metaRawResponse ELSE <<body>>
    /\ IF HasChoice(endpoint, body)
       THEN \E elapsed \in ElapsedNs : ChanSend(NonStreamingIncr(endpoint, body, elapsed))
       ELSE NoSend
    /\ Return
    /\ UNCHANGED <<tokenCount, sentFinalMessage, finalDoneReason, toolCallsState,
                   pending, eof, frags, ctxDone, clientConnected>>
    /\ UNCHANGED <<configVars, handlerVars>>

-----------------------------------------------------------------------------
(* OllamaBackend.Generate / Chat: the goroutine *)

\* Mutant of NormalizeChat: the load duration is left as the backend sent it.
NormalizeChatRole(incr) == [incr EXCEPT !.role = RoleOrAssistant(incr.role)]

\* Chat only: if Role == "" { Role = "assistant" };
\* if Done && LoadDuration == 0 { LoadDuration = 1 }
NormalizeChat(incr) ==
    [incr EXCEPT !.role = RoleOrAssistant(incr.role),
                 !.loadDuration = IF incr.done /\ incr.loadDuration = 0
                                  THEN 1 ELSE incr.loadDuration]

\* The increment a JSON line decodes to.
DecodeOllama(line) ==
    Incr(line.text, line.role, line.toolCalls, line.done,
         IF line.done THEN "stop" ELSE "", 0, 0, line.loadDuration)

OllamaLineStep(line) ==
    /\ backendType = "ollama"
    /\ ppc = "scan"
    /\ wire' = Append(wire, line)
    /\ rawResponse' = RawCapture(rawResponse, line)
    /\ IF line.kind = "badjson"
       THEN UNCHANGED <<ppc, pending>>
       ELSE /\ pending' = IF endpoint = "chat" THEN NormalizeChat(DecodeOllama(line))
                          ELSE DecodeOllama(line)
            /\ ppc' = "sendContent"
    /\ NoSend
    /\ UNCHANGED <<tokenCount, sentFinalMessage, finalDoneReason, toolCallsState,
                   eof, frags, chanClosed, metaRawResponse, ctxDone, clientConnected>>
    /\ UNCHANGED <<unreadVars, handlerVars>>

\* if chatResp.Done { metadata.RawResponse = rawResponse.String(); return }
OllamaStoreAfterDone ==
    /\ ppc = "store"
    /\ metaRawResponse' = rawResponse
    /\ Return
    /\ NoSend
    /\ UNCHANGED <<rawResponse, tokenCount, sentFinalMessage, finalDoneReason,
                   toolCallsState, pending, eof, frags, ctxDone, clientConnected>>
    /\ UNCHANGED <<configVars, handlerVars>>

\* scanner.Scan() returns false: metadata.RawResponse = rawResponse.String()
OllamaStreamEnd ==
    /\ backendType = "ollama"
    /\ ppc = "scan"
    /\ eof' = TRUE
    /\ metaRawResponse' = rawResponse
    /\ Return
    /\ NoSend
    /\ UNCHANGED <<rawResponse, tokenCount, sentFinalMessage, finalDoneReason,
                   toolCallsState, pending, frags, ctxDone, clientConnected>>
    /\ UNCHANGED <<configVars, handlerVars>>

-----------------------------------------------------------------------------
(* The request and the handler's transforms of it: ChatHandler.ServeHTTP,    *)
(* applyTextInjection, filterTools                                           *)

\* models.Message: Role, Content and ToolCalls.
Message(role, content) == [role |-> role, content |-> content, toolCalls |-> <<>>]

\* An assistant message that carries tool calls.
CallMessage(toolCalls) == [role |-> "assistant", content |-> EmptyText, toolCalls |-> toolCalls]

\* A JSON value of function.arguments: type is absent (no such key), string,
\* object or number; of is its text (for a string, the string itself).
Args(type, of) == [type |-> type, of |-> of]

\* One element of msg.ToolCalls in a request: isMap is the
\* tc.(map[string]interface{}) assertion, fnIsMap the one of tcMap["function"];
\* type is tcMap["type"] ("" when absent), id stands for the other keys of
\* the tool call, fnRest for the keys of function other than a string name
\* and arguments ("" when there are none).
ReqToolCall(isMap, fnIsMap, type, id, name, args, fnRest) ==
    [isMap |-> isMap, fnIsMap |-> fnIsMap, type |-> type, id |-> id,
     name |-> name, args |-> args, fnRest |-> fnRest]

\* Mutant of ArgumentsString: the arguments are copied as they are.
ArgumentsCopied(args) == args

\* newFunction["arguments"]: a string as it is, "{}" for a missing key, the
\* json.Marshal text of any other value.
ArgumentsString(args) ==
    IF args.type = "absent" THEN Args("string", <<"{", "}">>)
    ELSE Args("string", args.of)

\* The loop body over msg.ToolCalls: a tool call that is no map is copied;
\* else type is "function"; a function that is a map is built anew from its
\* name and its arguments as a string, another function is copied; the other
\* keys of the tool call are copied.
convertToolCall(tc) ==
    IF ~tc.isMap THEN tc
    ELSE [tc EXCEPT !.type = "function",
                    !.args = IF tc.fnIsMap THEN ArgumentsString(@) ELSE @,
                    !.fnRest = IF tc.fnIsMap THEN "" ELSE @]

convertMessagesToOpenAI(messages) ==
    [i \in 1..Len(messages) |->
        [messages[i] EXCEPT !.toolCalls =
            [j \in 1..Len(messages[i].toolCalls) |-> convertToolCall(messages[i].toolCalls[j])]]]

\* One element of req.Tools: isMap is the tool.(map[string]interface{})
\* assertion, hasName says that toolMap["function"] is a map whose "name" is
\* a string; desc stands for the rest of the declaration.
Tool(isMap, hasName, name, desc) ==
    [isMap |-> isMap, hasName |-> hasName, name |-> name, desc |-> desc]

\* r.Body: kind is ok, unreadable (io.ReadAll fails) or unparseable
\* (json.Unmarshal fails); the other fields are what an ok body decodes to.
RequestBody(kind, messages, tools, prompt) ==
    [kind |-> kind, messages |-> messages, tools |-> tools, prompt |-> prompt]

\* config.ChatTextInjection
TextInjection(enabled, text, mode) == [Enabled |-> enabled, Text |-> text, Mode |-> mode]

\* strings.Contains(s, substr)
Contains(s, substr) ==
    \E i \in 0..(Len(s) - Len(substr)) : SubSeq(s, i + 1, i + Len(substr)) = substr

\* for i, msg := range req.Messages { if msg.Role == "user" { targetIndex = i; break } }
\* (indices from 1; 0 is the code's -1)
RECURSIVE FirstUserFrom(_, _)
FirstUserFrom(messages, i) ==
    IF i > Len(messages) THEN 0
    ELSE IF messages[i].role = "user" THEN i
    ELSE FirstUserFrom(messages, i + 1)

\* for i := len(req.Messages) - 1; i >= 0; i-- { if ...Role == "user" { ...; break } }
RECURSIVE LastUserFrom(_, _)
LastUserFrom(messages, i) ==
    IF i < 1 THEN 0
    ELSE IF messages[i].role = "user" THEN i
    ELSE LastUserFrom(messages, i - 1)

\* targetIndex: mode "first" looks from the front, any other mode from the back.
TargetIndex(messages, mode) ==
    IF mode = "first" THEN FirstUserFrom(messages, 1)
    ELSE LastUserFrom(messages, Len(messages))

\* Mutant of AlreadyInjected: the check for the text is missing.
NeverInjected(content, text) == FALSE

\* strings.Contains(req.Messages[targetIndex].Content, injectionText)
AlreadyInjected(content, text) == Contains(content, text)

\* Mutant of Inject: the space is missing.
InjectNoSpace(content, text) == content \o text

\* req.Messages[targetIndex].Content + " " + injectionText
Inject(content, text) == content \o <<" ">> \o text

applyTextInjection(messages, text, mode) ==
    LET targetIndex == TargetIndex(messages, mode) IN
    IF targetIndex = 0 THEN messages
    ELSE IF AlreadyInjected(messages[targetIndex].content, text) THEN messages
    ELSE [messages EXCEPT ![targetIndex].content = Inject(@, text)]

\* toolName: the function's name when it can be extracted, "" otherwise.
ToolName(tool) == IF tool.isMap /\ tool.hasName THEN tool.name ELSE ""

\* Mutant of KeepTool: a tool whose name cannot be determined is dropped.
KeepOnlyNamed(tool, blacklist) == ToolName(tool) # "" /\ ToolName(tool) \notin blacklist

\* !ok (not a map), or toolName == "" || !blacklist[toolName]
KeepTool(tool, blacklist) ==
    \/ ~tool.isMap
    \/ ToolName(tool) = ""
    \/ ToolName(tool) \notin blacklist

\* if len(req.Tools) == 0 { return }; the loop; req.Tools = filteredTools
filterTools(tools, blacklist) ==
    IF Len(tools) = 0 THEN tools
    ELSE SelectSeq(tools, LAMBDA tool : KeepTool(tool, blacklist))

Unknown == <<"unknown">>

\* Mutant of OriginalLastMessage: the message is captured after the injection.
InjectedLastMessage(messages) ==
    IF Len(messages) > 0
    THEN applyTextInjection(messages, chatTextInjection.Text,
                            chatTextInjection.Mode)[Len(messages)].content
    ELSE Unknown

\* originalLastMessage := "unknown"
\* if len(req.Messages) > 0 { originalLastMessage = req.Messages[len-1].Content }
OriginalLastMessage(messages) ==
    IF Len(messages) > 0 THEN messages[Len(messages)].content ELSE Unknown

\* if Enabled && Text != "" { h.applyTextInjection(&req) }
InjectedMessages(messages, injection) ==
    IF injection.Enabled /\ injection.Text # EmptyText
    THEN applyTextInjection(messages, injection.Text, injection.Mode)
    ELSE messages

\* if len(h.config.Backend.ToolBlacklist) > 0 { h.filterTools(&req) }
FilteredTools(tools, blacklist) ==
    IF blacklist # {} THEN filterTools(tools, blacklist) ELSE tools

\* GenerateHandler.logRequest: lastMessage := req.Prompt; "unknown" when empty.
PromptOrUnknown(prompt) == IF prompt = EmptyText THEN Unknown ELSE prompt

\* LastMessage of the entry a handler logs.
LastMessageOf(ep) ==
    IF ep = "chat" THEN originalLastMessage ELSE PromptOrUnknown(reqBody.prompt)

\* metadata.RawRequest before any request was marshalled.
NoRequest == [messages |-> <<>>, tools |-> <<>>, prompt |-> EmptyText]

\* The request the adapter marshals for the backend: OpenAIBackend.Chat
\* converts the messages, OllamaBackend.Chat marshals req as it is; Generate
\* sends the prompt.
BackendRequest(backend, ep) ==
    IF ep = "chat"
    THEN [messages |-> IF backend = "openai" THEN convertMessagesToOpenAI(reqMessages)
                       ELSE reqMessages,
          tools |-> reqTools, prompt |-> EmptyText]
    ELSE [messages |-> <<>>, tools |-> <<>>, prompt |-> reqBody.prompt]

-----------------------------------------------------------------------------
(* ChatHandler.ServeHTTP / GenerateHandler.ServeHTTP *)

\* database.LogEntry, the fields the handlers compute from the exchange.
LogEntry(statusCode, error, response, frontendResponse, backendResponse, lastMessage) ==
    [StatusCode |-> statusCode, Error |-> error, Response |-> response,
     FrontendResponse |-> frontendResponse, BackendResponse |-> backendResponse,
     LastMessage |-> lastMessage]

\* The body of a non-200 backend answer, as one raw line.
ErrorBody == <<"o", "v", "e", "r">>
ErrorLine == SseLine("errorbody", "", ErrorBody, "", FALSE, <<>>)

\* err.Error() of the adapter: the translating adapter appends the body,
\* the pass-through adapter gives the status code alone.
ErrorText(backend, outcome) ==
    IF outcome = "transport" THEN <<"request failed">>
    ELSE IF backend = "openai" THEN <<"unexpected status code: 500, body: ">> \o ErrorBody
    ELSE <<"unexpected status code: 500">>

\* Mutant of DecodeStatus: the error of json.Unmarshal is ignored.
DecodeStatusNoParse(method, kind) ==
    IF method # "POST" THEN 405
    ELSE IF kind = "unreadable" THEN 400
    ELSE 0

\* The status of the http.Error the handler answers with before it decodes
\* the request, 0 when it goes on: the method check, io.ReadAll, json.Unmarshal.
DecodeStatus(method, kind) ==
    IF method # "POST" THEN 405
    ELSE IF kind # "ok" THEN 400
    ELSE 0

\* http.Error(w, "...", status)
DecodeError(method, kind) ==
    IF method # "POST" THEN <<"Method not allowed">>
    ELSE IF kind = "unreadable" THEN <<"Failed to read request body">>
    ELSE <<"Invalid request body">>

\* The handler up to the backend call: reject the request, or decode it,
\* capture the last message, inject the text and filter the tools (the chat
\* handler; the generate handler has no transforms).
Decode ==
    /\ hpc = "received"
    /\ IF DecodeStatus(reqMethod, reqBody.kind) # 0
       THEN /\ hpc' = "rejected"
            /\ clientStatus' = DecodeStatus(reqMethod, reqBody.kind)
            /\ clientBody' = DecodeError(reqMethod, reqBody.kind)
            /\ UNCHANGED requestVars
       ELSE /\ hpc' = "decoded"
            /\ UNCHANGED <<clientStatus, clientBody>>
            /\ IF endpoint = "chat"
               THEN /\ originalLastMessage' = OriginalLastMessage(reqBody.messages)
                    /\ reqMessages' = InjectedMessages(reqBody.messages, chatTextInjection)
                    /\ reqTools' = FilteredTools(reqBody.tools, toolBlacklist)
               ELSE UNCHANGED requestVars
    /\ UNCHANGED <<responses, fullResponse, written, logs>>
    /\ UNCHANGED <<fixedVars, metaVars, wire, serviceVars, parserVars,
                   respChan, chanClosed, metaRawResponse,
                   sent, sentAfterCancel, ctxDone, clientConnected>>

\* Mutant of MetadataOf: the metadata is returned only with a nil error.
MetadataOnSuccess(outcome) == IF outcome = "ok" THEN "set" ELSE "nil"

\* metadata := &BackendMetadata{} is the first statement of Generate and of
\* Chat of both adapters, and every return hands that pointer back.
MetadataOf(outcome) == "set"

\* h.backend.Chat(r.Context(), req) and, on error, logRequest + http.Error:
\* the error path reads backendMeta.RawRequest, .RawResponse and .URL.
\* On success the adapter has started its goroutine and the handler has set
\* the streaming headers and flushed them.
CallBackend(outcome) ==
    /\ hpc = "decoded"
    /\ metaRawRequest' = BackendRequest(backendType, endpoint)
    /\ backendMeta' = MetadataOf(outcome)
    /\ IF outcome = "ok"
       THEN /\ hpc' = "relay"
            /\ ppc' = IF backendType = "openai" /\ ~stream THEN "read" ELSE "scan"
            /\ clientStatus' = 200
            /\ UNCHANGED <<clientBody, logs, chanClosed, metaRawResponse, ctxDone>>
       ELSE /\ metaRawResponse' = IF outcome = "status" THEN <<ErrorLine>> ELSE <<>>
            /\ chanClosed' = TRUE
            /\ IF backendMeta' = "set"
               THEN /\ logs' = Append(logs, LogEntry(500, ErrorText(backendType, outcome),
                                                     EmptyText, <<>>, metaRawResponse',
                                                     LastMessageOf(endpoint)))
                    /\ clientStatus' = 500
                    /\ clientBody' = ErrorText(backendType, outcome)
                    /\ hpc' = "done"
               ELSE \* backendMeta.RawRequest panics on a nil pointer
                    /\ hpc' = "panic"
                    /\ UNCHANGED <<logs, clientStatus, clientBody>>
            /\ ctxDone' = TRUE
            /\ UNCHANGED ppc
    /\ UNCHANGED <<responses, fullResponse, written>>
    /\ UNCHANGED <<fixedVars, requestVars, wire, serviceVars>>
    /\ UNCHANGED <<rawResponse, tokenCount, sentFinalMessage,
                   finalDoneReason, toolCallsState, pending, eof, frags, respChan,
                   sent, sentAfterCancel, clientConnected>>

\* responses = append(responses, resp): always in the chat handler, only
\* with LogRawResponses in the generate handler.
StoreResponse(ep, logRaw, stored, resp) ==
    IF ep = "chat" \/ logRaw THEN Append(stored, resp) ELSE stored

\* Mutant of Receive: the newest buffered increment is taken.
ReceiveNewest(ch) == ch[Len(ch)]

\* resp := <-respChan: the oldest buffered increment.
Receive(ch) == Head(ch)

\* One turn of for resp := range respChan: receive, accumulate, Encode,
\* Flush, and break on a write error or on resp.Done.  A write to a
\* connection the client has left may still be accepted.
RelayStep(writeOk) ==
    /\ hpc = "relay"
    /\ respChan # <<>>
    /\ clientConnected => writeOk
    /\ LET resp == Receive(respChan) IN
         /\ respChan' = Tail(respChan)
         /\ fullResponse' = fullResponse \o resp.content
         /\ responses' = StoreResponse(endpoint, logRawResponses, responses, resp)
         /\ written' = IF writeOk THEN Append(written, resp) ELSE written
         /\ hpc' = IF ~writeOk \/ resp.done THEN "finish" ELSE "relay"
    /\ UNCHANGED <<clientStatus, clientBody, logs>>
    /\ UNCHANGED <<configVars, parserVars, chanClosed, metaRawResponse, sent,
                   sentAfterCancel, ctxDone, clientConnected>>

\* The range loop ends: the channel is closed and drained.
RelayClosed ==
    /\ hpc = "relay"
    /\ respChan = <<>> /\ chanClosed
    /\ hpc' = "finish"
    /\ UNCHANGED <<clientStatus, clientBody, responses, fullResponse, written, logs>>
    /\ UNCHANGED <<configVars, parserVars, respChan, chanClosed, metaRawResponse,
                   sent, sentAfterCancel, ctxDone, clientConnected>>

\* Mutant of LogRequest: nothing is logged once the client has left.
LogRequestIfConnected ==
    /\ hpc = "finish"
    /\ logs' = IF clientConnected
               THEN Append(logs, LogEntry(200, EmptyText, fullResponse, responses,
                                          metaRawResponse, LastMessageOf(endpoint)))
               ELSE logs
    /\ hpc' = "done"
    /\ ctxDone' = TRUE
    /\ UNCHANGED <<clientStatus, clientBody, responses, fullResponse, written>>
    /\ UNCHANGED <<configVars, parserVars, respChan, chanClosed, metaRawResponse,
                   sent, sentAfterCancel, clientConnected>>

\* h.logRequest(..., http.StatusOK, "", ..., frontendRespBuilder.String(),
\* backendMeta.RawRequest, backendMeta.RawResponse, ...) and the return, which
\* cancels the request's context.
LogRequest ==
    /\ hpc = "finish"
    /\ logs' = Append(logs, LogEntry(200, EmptyText, fullResponse, responses,
                                     metaRawResponse, LastMessageOf(endpoint)))
    /\ hpc' = "done"
    /\ ctxDone' = TRUE
    /\ UNCHANGED <<clientStatus, clientBody, responses, fullResponse, written>>
    /\ UNCHANGED <<configVars, parserVars, respChan, chanClosed, metaRawResponse,
                   sent, sentAfterCancel, clientConnected>>

\* The client goes away while the handler relays: net/http cancels r.Context().
ClientDisconnect ==
    /\ hpc = "relay"
    /\ clientConnected
    /\ clientConnected' = FALSE
    /\ ctxDone' = TRUE
    /\ UNCHANGED <<configVars, handlerVars, parserVars, respChan, chanClosed,
                   metaRawResponse, sent, sentAfterCancel>>

-----------------------------------------------------------------------------
(* config.Load, main and the cleanup task; the adapters' ListModels *)

\* config.DatabaseConfig
DatabaseConfig(maxRequests, cleanupInterval) ==
    [MaxRequests |-> maxRequests, CleanupInterval |-> cleanupInterval]

\* if config.Database.MaxRequests == 0 { config.Database.MaxRequests = 100 }
DefaultMaxRequests == 100

\* if config.Database.CleanupInterval == 0 { config.Database.CleanupInterval = 5 }
DefaultCleanupInterval == 5

\* config.Load: the defaults of the database section.
LoadDatabase(db) ==
    DatabaseConfig(IF db.MaxRequests = 0 THEN DefaultMaxRequests ELSE db.MaxRequests,
                   IF db.CleanupInterval = 0 THEN DefaultCleanupInterval
                   ELSE db.CleanupInterval)

\* cfg, err := config.Load(*configPath)
LoadConfig ==
    /\ mpc = "start"
    /\ cfgDatabase' = LoadDatabase(fileDatabase)
    /\ mpc' = "loaded"
    /\ UNCHANGED <<fileDatabase, cleanupStarted, taskVars, dbRows, modelsAnswer, modelsResp>>
    /\ UNCHANGED <<fixedVars, requestVars, metaVars, wire, handlerVars, parserVars,
                   respChan, chanClosed, metaRawResponse, sent, sentAfterCancel,
                   ctxDone, clientConnected>>

\* if cfg.Database.CleanupInterval > 0 && cfg.Database.MaxRequests > 0
CleanupEnabled(db) == db.CleanupInterval > 0 /\ db.MaxRequests > 0

\* main: go startCleanupTask(...) or close(cleanupDone); then the server starts.
StartCleanup ==
    /\ mpc = "loaded"
    /\ cleanupStarted' = CleanupEnabled(cfgDatabase)
    /\ tpc' = IF CleanupEnabled(cfgDatabase) THEN "startup" ELSE "none"
    /\ cleanupDoneCloses' = IF CleanupEnabled(cfgDatabase) THEN cleanupDoneCloses
                            ELSE cleanupDoneCloses + 1
    /\ mpc' = "serving"
    /\ UNCHANGED <<fileDatabase, cfgDatabase, sendOnClosed, dbRows, modelsAnswer, modelsResp>>
    /\ UNCHANGED <<fixedVars, requestVars, metaVars, wire, handlerVars, parserVars,
                   respChan, chanClosed, metaRawResponse, sent, sentAfterCancel,
                   ctxDone, clientConnected>>

\* db.CleanupOldRequests(maxRequests): the oldest rows are removed, the most
\* recent maxRequests rows are kept.  The rows are the ids of the log
\* records, oldest first.
CleanupOldRequests(rows, maxRequests) ==
    IF Len(rows) > maxRequests
    THEN SubSeq(rows, Len(rows) - maxRequests + 1, Len(rows))
    ELSE rows

\* startCleanupTask: the cleanup at startup and the one of every tick; the
\* task is at its select afterwards.
CleanupRun ==
    /\ cleanupStarted
    /\ tpc \in {"startup", "select"}
    /\ dbRows' = CleanupOldRequests(dbRows, cfgDatabase.MaxRequests)
    /\ tpc' = "select"
    /\ UNCHANGED <<fileDatabase, cfgDatabase, mpc, cleanupStarted, cleanupDoneCloses,
                   sendOnClosed, modelsAnswer, modelsResp>>
    /\ UNCHANGED <<fixedVars, requestVars, metaVars, wire, handlerVars, parserVars,
                   respChan, chanClosed, metaRawResponse, sent, sentAfterCancel,
                   ctxDone, clientConnected>>

\* The id of the next row: one more than the newest row's.
NextID(rows) == IF rows = <<>> THEN 1 ELSE rows[Len(rows)] + 1

\* The server answers requests from ListenAndServe until main's server.Close().
ServerUp == mpc \in {"serving", "sendDone", "recvDone"}

\* db.Log(entry) of some exchange inserts a row.
LogInsert ==
    /\ ServerUp
    /\ dbRows' = Append(dbRows, NextID(dbRows))
    /\ UNCHANGED <<fileDatabase, cfgDatabase, mpc, cleanupStarted, taskVars, modelsAnswer,
                   modelsResp>>
    /\ UNCHANGED <<fixedVars, requestVars, metaVars, wire, handlerVars, parserVars,
                   respChan, chanClosed, metaRawResponse, sent, sentAfterCancel,
                   ctxDone, clientConnected>>

\* <-sigChan: main goes on to stop the cleanup task, under the condition it
\* started it with, and to close the server.
Signal ==
    /\ mpc = "serving"
    /\ mpc' = IF CleanupEnabled(cfgDatabase) THEN "sendDone" ELSE "stopped"
    /\ UNCHANGED <<fileDatabase, cfgDatabase, cleanupStarted, taskVars, dbRows,
                   modelsAnswer, modelsResp>>
    /\ UNCHANGED <<fixedVars, requestVars, metaVars, wire, handlerVars, parserVars,
                   respChan, chanClosed, metaRawResponse, sent, sentAfterCancel,
                   ctxDone, clientConnected>>

\* cleanupDone <- struct{}{} meets case <-done of the task's select: the
\* channel has no buffer, so the send completes when the task receives.  A
\* send on a closed channel panics.
StopCleanup ==
    /\ mpc = "sendDone"
    /\ IF cleanupDoneCloses > 0
       THEN /\ sendOnClosed' = TRUE
            /\ mpc' = "panic"
            /\ UNCHANGED tpc
       ELSE /\ tpc = "select"
            /\ tpc' = "stopping"
            /\ mpc' = "recvDone"
            /\ UNCHANGED sendOnClosed
    /\ UNCHANGED <<fileDatabase, cfgDatabase, cleanupStarted, cleanupDoneCloses, dbRows,
                   modelsAnswer, modelsResp>>
    /\ UNCHANGED <<fixedVars, requestVars, metaVars, wire, handlerVars, parserVars,
                   respChan, chanClosed, metaRawResponse, sent, sentAfterCancel,
                   ctxDone, clientConnected>>

\* Mutant of TaskReturn: the task returns without closing the channel.
TaskReturnNoClose ==
    /\ tpc = "stopping"
    /\ tpc' = "returned"
    /\ UNCHANGED <<fileDatabase, cfgDatabase, mpc, cleanupStarted, cleanupDoneCloses,
                   sendOnClosed, dbRows, modelsAnswer, modelsResp>>
    /\ UNCHANGED <<fixedVars, requestVars, metaVars, wire, handlerVars, parserVars,
                   respChan, chanClosed, metaRawResponse, sent, sentAfterCancel,
                   ctxDone, clientConnected>>

\* case <-done: return, with the deferred close(done) and ticker.Stop().
TaskReturn ==
    /\ tpc = "stopping"
    /\ tpc' = "returned"
    /\ cleanupDoneCloses' = cleanupDoneCloses + 1
    /\ UNCHANGED <<fileDatabase, cfgDatabase, mpc, cleanupStarted, sendOnClosed, dbRows,
                   modelsAnswer, modelsResp>>
    /\ UNCHANGED <<fixedVars, requestVars, metaVars, wire, handlerVars, parserVars,
                   respChan, chanClosed, metaRawResponse, sent, sentAfterCancel,
                   ctxDone, clientConnected>>

\* <-cleanupDone returns once the channel is closed; then server.Close().
StopReceive ==
    /\ mpc = "recvDone"
    /\ cleanupDoneCloses > 0
    /\ mpc' = "stopped"
    /\ UNCHANGED <<fileDatabase, cfgDatabase, cleanupStarted, taskVars, dbRows,
                   modelsAnswer, modelsResp>>
    /\ UNCHANGED <<fixedVars, requestVars, metaVars, wire, handlerVars, parserVars,
                   respChan, chanClosed, metaRawResponse, sent, sentAfterCancel,
                   ctxDone, clientConnected>>

\* models.ModelInfo: Name, Model, Size, Digest.
ModelInfo(name, model, size, digest) ==
    [Name |-> name, Model |-> model, Size |-> size, Digest |-> digest]

\* One entry of the backend's model list: its id (OpenAI) or name (Ollama),
\* size and digest.
BackendModel(id, size, digest) == [ID |-> id, Size |-> size, Digest |-> digest]

\* The backend's answer to the listing request: kind is transport (client.Do
\* fails), status (not 200), badjson (Decode fails) or ok; models are the
\* entries of an ok answer.
ModelsAnswer(kind, models) == [kind |-> kind, models |-> models]

\* models.ModelsResponse and the error returned with it.
ModelsResult(models, err) == [Models |-> models, err |-> err]

\* The single synthetic model.
DefaultModels == <<ModelInfo("default", "default", 0, "")>>

\* Mutant of ModelInfoOf: the backend's size and digest are taken over.
ModelInfoCopied(m) == ModelInfo(m.ID, m.ID, m.Size, m.Digest)

\* models.ModelInfo{Name: m.ID, Model: m.ID, Size: 0, Digest: ""}
ModelInfoOf(m) == ModelInfo(m.ID, m.ID, 0, "")

\* json.NewDecoder(resp.Body).Decode(&modelsResp) of the Ollama adapter.
ModelInfoDecoded(m) == ModelInfo(m.ID, m.ID, m.Size, m.Digest)

\* OpenAIBackend.ListModels
OpenAIListModels(answer) ==
    IF answer.kind = "transport" THEN ModelsResult(<<>>, "request failed")
    ELSE IF answer.kind = "status" THEN ModelsResult(DefaultModels, "")
    ELSE IF answer.kind = "badjson" THEN ModelsResult(DefaultModels, "")
    ELSE ModelsResult([i \in 1..Len(answer.models) |-> ModelInfoOf(answer.models[i])], "")

\* OllamaBackend.ListModels
OllamaListModels(answer) ==
    IF answer.kind = "transport" THEN ModelsResult(<<>>, "request failed")
    ELSE IF answer.kind = "status" THEN ModelsResult(<<>>, "unexpected status code")
    ELSE IF answer.kind = "badjson" THEN ModelsResult(<<>>, "failed to decode response")
    ELSE ModelsResult([i \in 1..Len(answer.models) |-> ModelInfoDecoded(answer.models[i])], "")

\* h.backend.ListModels(ctx) for a request of the model list.
ListModels(answer) ==
    /\ ServerUp
    /\ modelsAnswer' = answer
    /\ modelsResp' = IF backendType = "openai" THEN OpenAIListModels(answer)
                     ELSE OllamaListModels(answer)
    /\ UNCHANGED <<fileDatabase, cfgDatabase, mpc, cleanupStarted, taskVars, dbRows>>
    /\ UNCHANGED <<fixedVars, requestVars, metaVars, wire, handlerVars, parserVars,
                   respChan, chanClosed, metaRawResponse, sent, sentAfterCancel,
                   ctxDone, clientConnected>>

NoAnswer == ModelsAnswer("none", <<>>)

\* The process serves with the configuration file's defaults, and no model
\* list was asked for.
Serving ==
    /\ fileDatabase = DatabaseConfig(0, 0)
    /\ cfgDatabase = LoadDatabase(fileDatabase)
    /\ mpc = "serving"
    /\ cleanupStarted = CleanupEnabled(cfgDatabase)
    /\ tpc = IF cleanupStarted THEN "startup" ELSE "none"
    /\ cleanupDoneCloses = IF cleanupStarted THEN 0 ELSE 1
    /\ sendOnClosed = FALSE
    /\ dbRows = <<>>
    /\ modelsAnswer = NoAnswer
    /\ modelsResp = ModelsResult(<<>>, "")

-----------------------------------------------------------------------------
(* The exchange *)

A == <<"a">>
B == <<"b">>

\* The lines a backend may send in the concurrent specification.
GenLines ==
    {SseOther("sentinel"), GenChunk(A, ""), GenChunk(EmptyText, ""), GenChunk(B, "stop")}

ChatLines ==
    {SseOther("sentinel"), ChatChunk(A, "", ""), ChatChunk(B, "assistant", "stop"),
     ToolChunk(<<Frag(TRUE, TRUE, 0, "c1", "f", <<"{", "}">>)>>, "")}

OllamaLines ==
    {OllamaLine("badjson", EmptyText, "", FALSE, 0),
     OllamaLine("json", A, "", FALSE, 0),
     OllamaLine("json", EmptyText, "assistant", TRUE, 0)}

\* A non-streaming chat answer whose message carries a tool call in the
\* OpenAI form: function.arguments is a JSON string.
ToolBody ==
    [Body("ok", "tool_calls", EmptyText, 0, 0) EXCEPT
        !.toolCalls = <<[name |-> "f", arguments |-> Args("string", <<"{", "}">>)]>>]

Bodies ==
    {Body("readerr", "", EmptyText, 0, 0), Body("badjson", "", EmptyText, 0, 0),
     Body("nochoice", "", EmptyText, 0, 0), Body("nomessage", "", A, 0, 0),
     Body("ok", "", A, 0, 0), Body("ok", "length", B, 3, 2), ToolBody}

\* The injection text, and the request and configuration of the exchanges
\* that are not about the transforms.
InjText == <<"/", "n">>

SampleInjection == TextInjection(TRUE, InjText, "last")

SampleBlacklist == {"g"}

SampleCalls ==
    <<ReqToolCall(TRUE, TRUE, "", "c1", "f", Args("object", <<"{", "}">>), ""),
      ReqToolCall(TRUE, TRUE, "function", "c2", "g", Args("string", <<"{", "}">>), "")>>

SampleBody ==
    RequestBody("ok", <<Message("user", A), CallMessage(SampleCalls),
                        Message("tool", B), Message("assistant", B)>>,
                <<Tool(TRUE, TRUE, "f", 1), Tool(TRUE, TRUE, "g", 1)>>, A)

BadBody(kind) == RequestBody(kind, <<>>, <<>>, EmptyText)

\* The state of the request before the handler has decoded it.
Undecoded ==
    /\ reqMessages = <<>>
    /\ reqTools = <<>>
    /\ originalLastMessage = Unknown

Init ==
    /\ backendType \in {"openai", "ollama"}
    /\ endpoint \in {"chat", "generate"}
    /\ stream \in BOOLEAN
    /\ logRawResponses \in BOOLEAN
    /\ chatTextInjection = SampleInjection
    /\ toolBlacklist = SampleBlacklist
    /\ reqMethod \in {"POST", "GET"}
    /\ reqBody \in {SampleBody, BadBody("unreadable"), BadBody("unparseable")}
    /\ Undecoded
    /\ hpc = "received"
    /\ clientConnected = TRUE
    /\ clientStatus = 0
    /\ clientBody = EmptyText
    /\ ctxDone = FALSE
    /\ responses = <<>>
    /\ fullResponse = EmptyText
    /\ written = <<>>
    /\ logs = <<>>
    /\ ppc = "idle"
    /\ rawResponse = <<>>
    /\ tokenCount = 0
    /\ sentFinalMessage = FALSE
    /\ finalDoneReason = ""
    /\ toolCallsState = EmptyState
    /\ pending = NoIncr
    /\ eof = FALSE
    /\ respChan = <<>>
    /\ chanClosed = FALSE
    /\ metaRawResponse = <<>>
    /\ sent = <<>>
    /\ sentAfterCancel = FALSE
    /\ frags = <<>>
    /\ wire = <<>>
    /\ metaRawRequest = NoRequest
    /\ backendMeta = "nil"
    /\ Serving

Handler ==
    \/ Decode
    \/ \E outcome \in {"ok", "transport", "status"} : CallBackend(outcome)
    \/ \E writeOk \in BOOLEAN : RelayStep(writeOk)
    \/ RelayClosed
    \/ LogRequest

\* The backend sends at most MaxLines lines before its transport closes.
MoreLines == Len(wire) < MaxLines

Parser ==
    \/ \E line \in GenLines : MoreLines /\ handleStreamingCompletionLine(line)
    \/ \E line \in ChatLines : MoreLines /\ handleStreamingChatLine(line)
    \/ SelectSend
    \/ SelectCtxDone
    \/ StreamEnd
    \/ SendTools
    \/ SendFinal
    \/ \E body \in Bodies : handleNonStreaming(body)
    \/ \E line \in OllamaLines : MoreLines /\ OllamaLineStep(line)
    \/ OllamaStoreAfterDone
    \/ OllamaStreamEnd

Next == Handler \/ Parser \/ ClientDisconnect

Spec == Init /\ [][Next]_vars

\* The goroutines are scheduled, and the backend's transport delivers a line
\* or closes (at the latest when the http.Client's timeout fires): a handler
\* step or a goroutine step that stays possible is eventually taken.
FairSpec == Spec /\ WF_vars(Handler) /\ WF_vars(Parser)

-----------------------------------------------------------------------------
(* The translating adapter's streaming goroutine on its own: the state after *)
(* Generate / Chat returned without error, a connected client, every kind of *)
(* line.                                                                     *)

BB == <<"b", "b">>

GenLinesAll ==
    {SseOther("noprefix"), SseOther("sentinel"), SseOther("badjson"), SseOther("nochoice"),
     GenChunk(A, ""), GenChunk(BB, ""), GenChunk(EmptyText, ""), GenChunk(A, "null"),
     GenChunk(EmptyText, "stop"), GenChunk(B, "length")}

ChatLinesAll ==
    {SseOther("noprefix"), SseOther("sentinel"), SseOther("badjson"), SseOther("nochoice"),
     ChatChunk(A, "", ""), ChatChunk(BB, "user", ""), ChatChunk(EmptyText, "", ""),
     SseLine("chunk", "", EmptyText, "", FALSE, <<>>), ChatChunk(A, "", "null"),
     ChatChunk(EmptyText, "", "stop"), ChatChunk(B, "", "length"),
     ToolChunk(<<Frag(TRUE, TRUE, 0, "c1", "f", <<"{", "}">>)>>, "")}

\* The state after Generate / Chat of the adapter returned without error.
StartedStreaming(backend) ==
    /\ backendType = backend
    /\ endpoint \in {"chat", "generate"}
    /\ stream = TRUE
    /\ logRawResponses = FALSE
    /\ chatTextInjection = SampleInjection
    /\ toolBlacklist = SampleBlacklist
    /\ reqMethod = "POST"
    /\ reqBody = SampleBody
    /\ IF endpoint = "chat"
       THEN /\ reqMessages = InjectedMessages(reqBody.messages, chatTextInjection)
            /\ reqTools = FilteredTools(reqBody.tools, toolBlacklist)
            /\ originalLastMessage = OriginalLastMessage(reqBody.messages)
       ELSE Undecoded
    /\ hpc = "relay"
    /\ clientConnected = TRUE
    /\ clientStatus = 200
    /\ clientBody = EmptyText
    /\ ctxDone = FALSE
    /\ responses = <<>>
    /\ fullResponse = EmptyText
    /\ written = <<>>
    /\ logs = <<>>
    /\ ppc = "scan"
    /\ rawResponse = <<>>
    /\ tokenCount = 0
    /\ sentFinalMessage = FALSE
    /\ finalDoneReason = ""
    /\ toolCallsState = EmptyState
    /\ pending = NoIncr
    /\ eof = FALSE
    /\ respChan = <<>>
    /\ chanClosed = FALSE
    /\ metaRawResponse = <<>>
    /\ sent = <<>>
    /\ sentAfterCancel = FALSE
    /\ frags = <<>>
    /\ wire = <<>>
    /\ metaRawRequest = BackendRequest(backendType, endpoint)
    /\ backendMeta = "set"
    /\ Serving

InitStreaming == StartedStreaming("openai")

NextTranslate ==
    \/ \E line \in GenLinesAll : MoreLines /\ handleStreamingCompletionLine(line)
    \/ \E line \in ChatLinesAll : MoreLines /\ handleStreamingChatLine(line)
    \/ SelectSend
    \/ StreamEnd
    \/ SendTools
    \/ SendFinal

SpecTranslate == InitStreaming /\ [][NextTranslate]_vars

-----------------------------------------------------------------------------
(* Tool-call reassembly: the same goroutine in a chat exchange whose chunks  *)
(* carry tool-call fragments for the indices 0..MaxIndex.                    *)

ToolFrags ==
    {Frag(TRUE, TRUE, i, "c1", "f", EmptyText) : i \in 0..MaxIndex}
    \cup {Frag(TRUE, TRUE, i, "c2", "g", EmptyText) : i \in 0..MaxIndex}
    \cup {Frag(TRUE, TRUE, i, "", "", <<"{">>) : i \in 0..MaxIndex}
    \cup {Frag(TRUE, TRUE, i, "", "", <<"}">>) : i \in 0..MaxIndex}
    \cup {Frag(TRUE, FALSE, 0, "", "", <<"1">>), Frag(FALSE, FALSE, 0, "", "", EmptyText)}

ToolLines == {ToolChunk(<<tc>>, "") : tc \in ToolFrags}

FinishLine == ChatChunk(EmptyText, "", "tool_calls")

MoreFrags == Len(frags) < MaxFrags

InitTools == InitStreaming /\ endpoint = "chat"

NextTools ==
    \/ \E line \in ToolLines : MoreFrags /\ handleStreamingChatLine(line)
    \/ ~sentFinalMessage /\ handleStreamingChatLine(FinishLine)
    \/ StreamEnd
    \/ SendTools
    \/ SendFinal

SpecTools == InitTools /\ [][NextTools]_vars

-----------------------------------------------------------------------------
(* The same goroutine with every index int(idx) can give for a JSON number:  *)
(* negative ones and ones that leave a gap included.                         *)

IndexFrags == {Frag(TRUE, TRUE, i, "c1", "f", <<"{", "}">>) : i \in -1..MaxIndex + 1}

IndexLines == {ToolChunk(<<tc>>, "") : tc \in IndexFrags}

NextIndices ==
    \/ \E line \in IndexLines : MoreFrags /\ handleStreamingChatLine(line)
    \/ ~sentFinalMessage /\ handleStreamingChatLine(FinishLine)
    \/ StreamEnd
    \/ SendTools
    \/ SendFinal

SpecIndices == InitTools /\ [][NextIndices]_vars

-----------------------------------------------------------------------------
(* The handler's transforms of the request: chat exchanges over every        *)
(* message list, injection setting, tool list and blacklist within the       *)
(* bounds, generate exchanges over the prompts; the backend fails, or        *)
(* its stream ends at once.                                                   *)

MaxMsgs == 3
MaxTools == 3

SeqsUpTo(S, n) == UNION {[1..k -> S] : k \in 0..n}

Messages ==
    {Message(role, content) :
        role \in {"user", "assistant", "tool"},
        content \in {EmptyText, A, A \o InjText}}

Injections ==
    {TextInjection(FALSE, InjText, "last"), TextInjection(TRUE, EmptyText, "last"),
     TextInjection(TRUE, InjText, "first"), TextInjection(TRUE, InjText, "last")}

Tools ==
    {Tool(TRUE, TRUE, "f", 1), Tool(TRUE, TRUE, "f", 2), Tool(TRUE, TRUE, "g", 1),
     Tool(TRUE, TRUE, "", 1), Tool(TRUE, FALSE, "", 1), Tool(FALSE, FALSE, "", 1)}

Blacklists == {{}, {"f"}, {"f", "g"}, {"", "g"}}

InitRequest ==
    /\ backendType = "ollama"
    /\ stream = TRUE
    /\ logRawResponses = FALSE
    /\ reqMethod = "POST"
    /\ \/ /\ endpoint = "chat"
          /\ reqBody \in {RequestBody("ok", m, <<>>, EmptyText) :
                             m \in SeqsUpTo(Messages, MaxMsgs)}
          /\ chatTextInjection \in Injections
          /\ toolBlacklist = {}
       \/ /\ endpoint = "chat"
          /\ reqBody \in {RequestBody("ok", SampleBody.messages, t, EmptyText) :
                             t \in SeqsUpTo(Tools, MaxTools)}
          /\ chatTextInjection = TextInjection(FALSE, EmptyText, "last")
          /\ toolBlacklist \in Blacklists
       \/ /\ endpoint = "generate"
          /\ reqBody \in {RequestBody("ok", <<>>, <<>>, prompt) : prompt \in {EmptyText, A}}
          /\ chatTextInjection = SampleInjection
          /\ toolBlacklist = SampleBlacklist
    /\ Undecoded
    /\ hpc = "received"
    /\ clientConnected = TRUE
    /\ clientStatus = 0
    /\ clientBody = EmptyText
    /\ ctxDone = FALSE
    /\ responses = <<>>
    /\ fullResponse = EmptyText
    /\ written = <<>>
    /\ logs = <<>>
    /\ ppc = "idle"
    /\ rawResponse = <<>>
    /\ tokenCount = 0
    /\ sentFinalMessage = FALSE
    /\ finalDoneReason = ""
    /\ toolCallsState = EmptyState
    /\ pending = NoIncr
    /\ eof = FALSE
    /\ respChan = <<>>
    /\ chanClosed = FALSE
    /\ metaRawResponse = <<>>
    /\ sent = <<>>
    /\ sentAfterCancel = FALSE
    /\ frags = <<>>
    /\ wire = <<>>
    /\ metaRawRequest = NoRequest
    /\ backendMeta = "nil"
    /\ Serving

NextRequest ==
    \/ Decode
    \/ \E outcome \in {"ok", "transport", "status"} : CallBackend(outcome)
    \/ OllamaStreamEnd
    \/ RelayClosed
    \/ LogRequest

SpecRequest == InitRequest /\ [][NextRequest]_vars

-----------------------------------------------------------------------------
(* Chat exchanges of both adapters over the tool calls of an assistant       *)
(* message, and over message lists with a system message under the           *)
(* injection mode "system".                                                  *)

MaxCalls == 2

ReqToolCalls ==
    {ReqToolCall(TRUE, TRUE, "", "c1", "f", Args("object", <<"{", "}">>), ""),
     ReqToolCall(TRUE, TRUE, "function", "c2", "g", Args("string", <<"{", "}">>), ""),
     ReqToolCall(TRUE, TRUE, "custom", "c1", "f", Args("absent", EmptyText), ""),
     ReqToolCall(TRUE, TRUE, "function", "", "f", Args("number", <<"1">>), "strict"),
     ReqToolCall(TRUE, FALSE, "", "c1", "", Args("absent", EmptyText), "raw"),
     ReqToolCall(FALSE, FALSE, "", "", "", Args("absent", EmptyText), "")}

SystemMessages == {Message(role, A) : role \in {"system", "user", "assistant"}}

InitConvert ==
    /\ backendType \in {"openai", "ollama"}
    /\ endpoint = "chat"
    /\ stream = TRUE
    /\ logRawResponses = FALSE
    /\ reqMethod = "POST"
    /\ \/ /\ reqBody \in {RequestBody("ok", <<Message("user", A), CallMessage(calls)>>,
                                         <<>>, EmptyText) :
                             calls \in SeqsUpTo(ReqToolCalls, MaxCalls)}
          /\ chatTextInjection = TextInjection(FALSE, EmptyText, "last")
       \/ /\ reqBody \in {RequestBody("ok", m, <<>>, EmptyText) :
                             m \in SeqsUpTo(SystemMessages, MaxMsgs)}
          /\ chatTextInjection = TextInjection(TRUE, InjText, "system")
    /\ toolBlacklist = {}
    /\ Undecoded
    /\ hpc = "received"
    /\ clientConnected = TRUE
    /\ clientStatus = 0
    /\ clientBody = EmptyText
    /\ ctxDone = FALSE
    /\ responses = <<>>
    /\ fullResponse = EmptyText
    /\ written = <<>>
    /\ logs = <<>>
    /\ ppc = "idle"
    /\ rawResponse = <<>>
    /\ tokenCount = 0
    /\ sentFinalMessage = FALSE
    /\ finalDoneReason = ""
    /\ toolCallsState = EmptyState
    /\ pending = NoIncr
    /\ eof = FALSE
    /\ respChan = <<>>
    /\ chanClosed = FALSE
    /\ metaRawResponse = <<>>
    /\ sent = <<>>
    /\ sentAfterCancel = FALSE
    /\ frags = <<>>
    /\ wire = <<>>
    /\ metaRawRequest = NoRequest
    /\ backendMeta = "nil"
    /\ Serving

SpecConvert == InitConvert /\ [][NextRequest]_vars

-----------------------------------------------------------------------------
(* Both adapters' streaming goroutines on their own: the state after         *)
(* Generate / Chat returned without error, a connected client, every kind of *)
(* line.                                                                     *)

OllamaLinesAll ==
    {OllamaLine("badjson", EmptyText, "", FALSE, 0),
     OllamaLine("json", A, "", FALSE, 0),
     OllamaLine("json", B, "user", FALSE, 3),
     OllamaLine("json", EmptyText, "assistant", TRUE, 0),
     OllamaLine("json", A, "", TRUE, 3)}

InitParse == \E backend \in {"openai", "ollama"} : StartedStreaming(backend)

NextParse ==
    \/ \E line \in GenLinesAll : MoreLines /\ handleStreamingCompletionLine(line)
    \/ \E line \in ChatLinesAll : MoreLines /\ handleStreamingChatLine(line)
    \/ SelectSend
    \/ StreamEnd
    \/ SendTools
    \/ SendFinal
    \/ \E line \in OllamaLinesAll : MoreLines /\ OllamaLineStep(line)
    \/ OllamaStoreAfterDone
    \/ OllamaStreamEnd

SpecParse == InitParse /\ [][NextParse]_vars

-----------------------------------------------------------------------------
(* A long streaming chat answer through the translating adapter, relayed by  *)
(* the handler to a client that may leave: content chunks, then a chunk with *)
(* a finish reason, more of them than the channel buffers.                   *)

MaxBurst == 12

BurstLines == {ChatChunk(A, "", ""), ChatChunk(EmptyText, "", "stop")}

\* The backend has sent no finish reason yet and fewer than MaxBurst lines.
MoreBurst == Len(wire) < MaxBurst /\ \A i \in 1..Len(wire) : ~IsFinish(wire[i])

InitBurst == StartedStreaming("openai") /\ endpoint = "chat"

NextBurst ==
    \/ \E line \in BurstLines : MoreBurst /\ handleStreamingChatLine(line)
    \/ SelectSend
    \/ SelectCtxDone
    \/ StreamEnd
    \/ SendFinal
    \/ \E writeOk \in BOOLEAN : RelayStep(writeOk)
    \/ RelayClosed
    \/ LogRequest
    \/ ClientDisconnect

SpecBurst == InitBurst /\ [][NextBurst]_vars

-----------------------------------------------------------------------------
(* The process: config.Load, main's start of the cleanup task, the rows of   *)
(* the log and the model list; no exchange is in progress.                   *)

MaxRows == 3
MaxModels == 2

\* The values of max_requests and cleanup_interval in the file (0 also when
\* the key is absent).
FileDatabases ==
    {DatabaseConfig(m, c) : m \in {-1, 0, 1, 2}, c \in {-1, 0, 1}}

BackendModels == {BackendModel("m1", 0, ""), BackendModel("m2", 7, "d")}

ModelsAnswers ==
    {ModelsAnswer(k, <<>>) : k \in {"transport", "status", "badjson"}}
    \cup {ModelsAnswer("ok", ms) : ms \in SeqsUpTo(BackendModels, MaxModels)}

InitMain ==
    /\ backendType \in {"openai", "ollama"}
    /\ endpoint = "chat"
    /\ stream = TRUE
    /\ logRawResponses = FALSE
    /\ chatTextInjection = SampleInjection
    /\ toolBlacklist = SampleBlacklist
    /\ reqMethod = "POST"
    /\ reqBody = SampleBody
    /\ Undecoded
    /\ hpc = "received"
    /\ clientConnected = TRUE
    /\ clientStatus = 0
    /\ clientBody = EmptyText
    /\ ctxDone = FALSE
    /\ responses = <<>>
    /\ fullResponse = EmptyText
    /\ written = <<>>
    /\ logs = <<>>
    /\ ppc = "idle"
    /\ rawResponse = <<>>
    /\ tokenCount = 0
    /\ sentFinalMessage = FALSE
    /\ finalDoneReason = ""
    /\ toolCallsState = EmptyState
    /\ pending = NoIncr
    /\ eof = FALSE
    /\ respChan = <<>>
    /\ chanClosed = FALSE
    /\ metaRawResponse = <<>>
    /\ sent = <<>>
    /\ sentAfterCancel = FALSE
    /\ frags = <<>>
    /\ wire = <<>>
    /\ metaRawRequest = NoRequest
    /\ backendMeta = "nil"
    /\ fileDatabase \in FileDatabases
    /\ cfgDatabase = DatabaseConfig(0, 0)
    /\ mpc = "start"
    /\ cleanupStarted = FALSE
    /\ tpc = "none"
    /\ cleanupDoneCloses = 0
    /\ sendOnClosed = FALSE
    /\ dbRows = <<>>
    /\ modelsAnswer = NoAnswer
    /\ modelsResp = ModelsResult(<<>>, "")

NextMain ==
    \/ LoadConfig
    \/ StartCleanup
    \/ CleanupRun
    \/ NextID(dbRows) <= MaxRows /\ LogInsert
    \/ \E answer \in ModelsAnswers : ListModels(answer)
    \/ Signal
    \/ StopCleanup
    \/ TaskReturn
    \/ StopReceive

SpecMain == InitMain /\ [][NextMain]_vars

\* The task's goroutine and main are scheduled, and a select with a ready
\* case is not passed over for ever: the ticker is ready only now and then.
FairSpecMain ==
    /\ SpecMain
    /\ WF_vars(CleanupRun)
    /\ WF_vars(StopCleanup)
    /\ WF_vars(TaskReturn)
    /\ WF_vars(StopReceive)

-----------------------------------------------------------------------------
(* Claims *)

Last(seq) == seq[Len(seq)]

Finals(incrs) == {i \in 1..Len(incrs) : incrs[i].done}

Translating == backendType = "openai"

\* C1: in every exchange whose backend call succeeded and whose client stayed
\* connected, the increments written to the client hold exactly one
\* increment with done = true, and it is the last one written.
C1_ExactlyOneFinalWritten ==
    (hpc = "done" /\ clientStatus = 200 /\ clientConnected)
        => Finals(written) = {Len(written)} /\ written # <<>>

\* C2: in the entry logged for a streaming exchange through the translating
\* adapter, the backend response is at least as long as the content deltas
\* relayed to the client.
C2_RawCoversRelayed ==
    (Translating /\ stream /\ hpc = "done" /\ clientStatus = 200)
        => RawLen(Last(logs).BackendResponse) >= SumLen(Contents(written))

\* C3: once the request's context is cancelled, the parsing goroutine sends
\* no further increment on its channel.
C3_NoSendAfterCancel == (Translating /\ stream) => ~sentAfterCancel

\* C4: every exchange whose request was decoded ends with exactly one entry
\* in the Log Collector, and no exchange ever has more than one.
C4_ExactlyOneRecord ==
    /\ [](Len(logs) <= 1)
    /\ [](hpc = "rejected" => logs = <<>>)
    /\ (hpc = "decoded") ~> (hpc = "done" /\ Len(logs) = 1)

\* C4 witness: the client left mid-stream, an increment the goroutine had
\* sent was never written, and the exchange is logged once.
C4_Witness ==
    /\ hpc = "done" /\ ~clientConnected
    /\ Len(logs) = 1 /\ Len(written) < Len(sent)

\* C5: after the translating adapter's streaming goroutine has sent the
\* final increment, it sends no further increment.
C5_NothingSentAfterFinal ==
    (Translating /\ stream) => \A i \in Finals(sent) : i = Len(sent)

CarriesTools(incr) == incr.toolCalls # <<>>

ToolsSent == {i \in 1..Len(sent) : CarriesTools(sent[i])}

\* C6: in a streaming chat exchange through the translating adapter no
\* increment carrying tool calls is sent before the finish reason or the end
\* of the stream; the final increment is preceded by one non-final increment
\* carrying buildToolCallsArray of the accumulated calls exactly when calls
\* were accumulated, and what follows that increment is the final one.
C6_ToolCallsThenFinal ==
    (Translating /\ stream /\ endpoint = "chat") =>
        /\ (ppc \in {"scan", "sendContent"} /\ ~sentFinalMessage) => ToolsSent = {}
        /\ Cardinality(ToolsSent) <= 1
        /\ \A i \in ToolsSent :
              /\ ~sent[i].done
              /\ i < Len(sent) => sent[i + 1].done
              /\ \A j \in 1..(i - 1) : ~sent[j].done
        /\ ppc = "sendFinal" =>
              IF DOMAIN toolCallsState # {}
              THEN sent # <<>> /\ Last(sent) = ToolsIncr(toolCallsState)
              ELSE ToolsSent = {}
        /\ ppc = "sendTools" => ToolsSent = {} /\ DOMAIN toolCallsState # {}

\* C6 witness: content, then fragments, then the tool-call set and the final
\* increment right after it.
C6_Witness ==
    /\ Translating /\ stream /\ endpoint = "chat"
    /\ Len(sent) = 3
    /\ ~CarriesTools(sent[1]) /\ CarriesTools(sent[2]) /\ sent[3].done

\* The index a fragment is accumulated under, and the fragments of an index
\* in arrival order.
EffIndex(tc) == IF tc.hasIndex THEN tc.index ELSE 0

FragsOf(i) == SelectSeq(frags, LAMBDA tc : tc.isMap /\ EffIndex(tc) = i)

IDsOf(i) == [k \in 1..Len(FragsOf(i)) |-> FragsOf(i)[k].id]

NamesOf(i) == [k \in 1..Len(FragsOf(i)) |-> FragsOf(i)[k].name]

RECURSIVE FirstNonEmpty(_)
FirstNonEmpty(strs) ==
    IF strs = <<>> THEN ""
    ELSE IF Head(strs) # "" THEN Head(strs) ELSE FirstNonEmpty(Tail(strs))

RECURSIVE LastNonEmpty(_)
LastNonEmpty(strs) ==
    IF strs = <<>> THEN ""
    ELSE IF Last(strs) # "" THEN Last(strs)
    ELSE LastNonEmpty(SubSeq(strs, 1, Len(strs) - 1))

\* C7 as stated: for every index the stored ID and name are the first
\* non-empty values received for that index.
C7_FirstNonEmptyWins ==
    \A i \in DOMAIN toolCallsState :
        /\ toolCallsState[i].ID = FirstNonEmpty(IDsOf(i))
        /\ toolCallsState[i].Name = FirstNonEmpty(NamesOf(i))

\* C7 amended: for every index the stored ID and name are the last non-empty
\* values received for that index; an empty or missing value changes nothing.
C7_LastNonEmptyWins ==
    \A i \in DOMAIN toolCallsState :
        /\ toolCallsState[i].ID = LastNonEmpty(IDsOf(i))
        /\ toolCallsState[i].Name = LastNonEmpty(NamesOf(i))

\* C7 witness: an index received two different non-empty IDs and names, and
\* an empty one after them.
C7_Witness ==
    \E i \in DOMAIN toolCallsState :
        /\ FirstNonEmpty(IDsOf(i)) # LastNonEmpty(IDsOf(i))
        /\ FirstNonEmpty(NamesOf(i)) # LastNonEmpty(NamesOf(i))
        /\ Last(IDsOf(i)) = ""

FragIndices == {EffIndex(frags[k]) : k \in {j \in 1..Len(frags) : frags[j].isMap}}

RECURSIVE Ascending(_)
Ascending(S) ==
    IF S = {} THEN <<>>
    ELSE LET m == CHOOSE x \in S : \A y \in S : x <= y
         IN <<m>> \o Ascending(S \ {m})

RECURSIVE ConcatArgs(_)
ConcatArgs(tcs) == IF tcs = <<>> THEN <<>> ELSE Head(tcs).args \o ConcatArgs(Tail(tcs))

IsContentLine(line) == line.kind = "chunk" /\ ~IsFinish(line) /\ line.text # EmptyText

IsFinishLine(line) == line.kind = "chunk" /\ IsFinish(line)

\* rawResponse is n content fragments, a finish signal, and nothing but the
\* sentinel after it.
FragmentsThenFinish(n) ==
    /\ n + 1 <= Len(rawResponse)
    /\ \A i \in 1..n : IsContentLine(rawResponse[i])
    /\ IsFinishLine(rawResponse[n + 1])
    /\ \A i \in (n + 2)..Len(rawResponse) : rawResponse[i].kind = "sentinel"

\* C9: for a streamed generation response of N content fragments followed by
\* a finish signal the adapter emits N non-final increments, one content
\* delta each in fragment order, then one final increment with eval_count N.
C9_FragmentsThenFinal ==
    \A n \in 0..Len(rawResponse) :
        (endpoint = "generate" /\ sentFinalMessage /\ FragmentsThenFinish(n)) =>
            Len(sent) = n + 1 /\ sent = [i \in 1..(n + 1) |->
                       IF i <= n THEN GenContentIncr(rawResponse[i].text)
                       ELSE Timed(Incr(EmptyText, "", <<>>, TRUE,
                                       rawResponse[n + 1].finish, n, 1, 0),
                                  sent[n + 1].evalDuration)]

\* C9 witness: two content fragments, the finish signal, three increments.
C9_Witness ==
    /\ endpoint = "generate" /\ sentFinalMessage
    /\ FragmentsThenFinish(2) /\ Len(sent) = 3

ContentSent == {i \in 1..Len(sent) : ~sent[i].done /\ sent[i].content # EmptyText}

\* C10: when the stream closes and no chunk carried a finish reason, the
\* adapter emits, after all non-final increments, exactly one final increment,
\* with done_reason "stop" and the running token count as eval_count.
C10_SynthesizedStop ==
    (ppc = "returned" /\ eof /\ \A i \in 1..Len(rawResponse) : ~IsFinishLine(rawResponse[i]))
        => /\ sent # <<>>
           /\ Finals(sent) = {Len(sent)}
           /\ Last(sent).doneReason = "stop"
           /\ Last(sent).evalCount = tokenCount
           /\ Last(sent).evalCount = Cardinality(ContentSent)

\* C10 witness: two content fragments and the sentinel, no finish reason.
C10_Witness ==
    /\ endpoint = "generate" /\ ppc = "returned" /\ eof
    /\ Len(rawResponse) = 3
    /\ IsContentLine(rawResponse[1]) /\ IsContentLine(rawResponse[2])
    /\ rawResponse[3].kind = "sentinel"
    /\ Last(sent).done /\ Last(sent).evalCount = 2 /\ Last(sent).doneReason = "stop"

\* C11: at every moment the increments written to the client are a prefix of
\* the increments the parser sent, in the same order; what is buffered is
\* the end of what was sent, and while the handler relays, nothing between
\* the two is lost.
C11_WrittenPrefixOfSent ==
    /\ Len(written) + Len(respChan) <= Len(sent)
    /\ written = SubSeq(sent, 1, Len(written))
    /\ respChan = SubSeq(sent, Len(sent) - Len(respChan) + 1, Len(sent))
    /\ hpc = "relay" => Len(written) + Len(respChan) = Len(sent)

\* C11 witness: two different increments written, a third one buffered.
C11_Witness ==
    /\ Len(written) >= 2 /\ written[1] # written[2]
    /\ respChan # <<>>

\* C12: when the backend answers with a non-200 status and body B, the client
\* receives status 500 with a body containing B, and the logged exchange has
\* status 500 and an error text containing B, for either adapter.
C12_ErrorCarriesBody ==
    metaRawResponse = <<ErrorLine>> =>
        /\ clientStatus = 500
        /\ Contains(clientBody, ErrorBody)
        /\ Len(logs) = 1
        /\ Last(logs).StatusCode = 500
        /\ Contains(Last(logs).Error, ErrorBody)

IsClientError == reqMethod # "POST" \/ reqBody.kind # "ok"

\* C13: for a wrong method or an unreadable or unparseable body the handler
\* answers with a 4xx status, never calls the adapter and never logs.
C13_ClientErrorRejected ==
    IsClientError =>
        /\ hpc \in {"received", "rejected"}
        /\ hpc = "rejected" => clientStatus \in 400..499
        /\ ppc = "idle" /\ ~chanClosed /\ sent = <<>> /\ metaRawResponse = <<>>
        /\ logs = <<>>

\* C13 witness: a POST whose body does not parse was answered with 400.
C13_Witness ==
    /\ reqMethod = "POST" /\ reqBody.kind = "unparseable"
    /\ hpc = "rejected" /\ clientStatus = 400

\* C14: for a well-formed non-streaming chat response the translating
\* adapter sends exactly one increment, with done = true and the backend's
\* finish reason as done_reason, "stop" when the backend gave none.
C14_NonStreamingChatOneFinal ==
    (Translating /\ ~stream /\ endpoint = "chat" /\ ppc = "returned"
        /\ rawResponse # <<>> /\ rawResponse[1].kind = "ok") =>
        /\ Len(sent) = 1
        /\ sent[1].done
        /\ sent[1].content = rawResponse[1].text
        /\ sent[1].doneReason =
              IF rawResponse[1].finish = "" THEN "stop" ELSE rawResponse[1].finish

\* C14 witness: the backend's finish reason "length" is the done_reason.
C14_Witness ==
    /\ Translating /\ ~stream /\ endpoint = "chat" /\ ppc = "returned"
    /\ Len(sent) = 1 /\ sent[1].doneReason = "length"

\* C15: with no usage fields in the backend response, no final increment of
\* the translating adapter reports a prompt or completion token counter of 0;
\* in the non-streaming case both are 1.
C15_TokenCountersNeverZero ==
    Translating =>
        \A i \in Finals(sent) :
            /\ sent[i].promptEvalCount # 0
            /\ sent[i].evalCount # 0
            /\ (~stream /\ rawResponse[1].promptTokens = 0
                    /\ rawResponse[1].completionTokens = 0) =>
                  sent[i].promptEvalCount = 1 /\ sent[i].evalCount = 1

\* C16: on every final increment of the translating adapter total_duration
\* is strictly greater than eval_duration.
C16_TotalExceedsEval ==
    Translating =>
        \A i \in Finals(sent) : sent[i].totalDuration > sent[i].evalDuration

\* The handler of a chat exchange has decoded the request and applied the
\* injection of a non-empty text.
Injecting ==
    /\ endpoint = "chat" /\ hpc \notin {"received", "rejected"}
    /\ chatTextInjection.Enabled /\ chatTextInjection.Text # EmptyText

UserIndices(messages) == {i \in 1..Len(messages) : messages[i].role = "user"}

\* The message the mode designates: the first or the last with role "user",
\* 0 when there is none.
Designated(messages, mode) ==
    IF UserIndices(messages) = {} THEN 0
    ELSE IF mode = "first"
         THEN CHOOSE i \in UserIndices(messages) : \A j \in UserIndices(messages) : i <= j
         ELSE CHOOSE i \in UserIndices(messages) : \A j \in UserIndices(messages) : j <= i

\* C17: text injection is idempotent: applying it to the messages it has
\* produced changes nothing, and applying it to a request whose target
\* message already contains the text leaves every message unchanged.
C17_InjectionIdempotent ==
    Injecting =>
        LET T == chatTextInjection.Text
            mode == chatTextInjection.Mode
            target == Designated(reqBody.messages, mode)
        IN /\ applyTextInjection(reqMessages, T, mode) = reqMessages
           /\ (target # 0 /\ Contains(reqBody.messages[target].content, T)) =>
                 reqMessages = reqBody.messages

\* C17 witness: the text was injected into the target message while another
\* message of the list already held it.
C17_Witness ==
    /\ Injecting
    /\ reqMessages # reqBody.messages
    /\ \E i \in 1..Len(reqBody.messages) : Contains(reqBody.messages[i].content, InjText)

\* C18: text injection changes at most one message, the first (mode "first")
\* or the last (mode "last") with role "user"; its content becomes the old
\* content, one space and the text; every other message, and the whole
\* request when there is no user message, is unchanged.
C18_InjectionFrame ==
    Injecting =>
        LET T == chatTextInjection.Text
            old == reqBody.messages
            target == Designated(old, chatTextInjection.Mode)
        IN /\ Len(reqMessages) = Len(old)
           /\ \A i \in 1..Len(old) : i # target => reqMessages[i] = old[i]
           /\ target # 0 =>
                 /\ reqMessages[target].role = old[target].role
                 /\ reqMessages[target].content =
                       IF Contains(old[target].content, T) THEN old[target].content
                       ELSE old[target].content \o <<" ">> \o T

\* C18 witness: mode "first", two user messages without the text, the first
\* one changed and the second one not.
C18_Witness ==
    /\ Injecting /\ chatTextInjection.Mode = "first"
    /\ \E i, j \in UserIndices(reqBody.messages) :
          /\ i < j
          /\ ~Contains(reqBody.messages[j].content, InjText)
          /\ reqMessages[i] # reqBody.messages[i]
          /\ reqMessages[j] = reqBody.messages[j]

\* C19 as stated: the last-message field of the entry logged for a chat
\* exchange is the content of the last message with role "user" as the
\* client sent it.
C19_LastUserMessage ==
    (endpoint = "chat" /\ logs # <<>> /\ UserIndices(reqBody.messages) # {}) =>
        Last(logs).LastMessage =
            reqBody.messages[Designated(reqBody.messages, "last")].content

\* C19 amended: the last-message field of the entry logged for a chat
\* exchange is the content of the last message of the list as the client
\* sent it, whatever its role, before the injection, and "unknown" for an
\* empty list.
C19_LastMessageAsSent ==
    (endpoint = "chat" /\ logs # <<>>) =>
        Last(logs).LastMessage =
            IF reqBody.messages = <<>> THEN Unknown ELSE Last(reqBody.messages).content

\* C19 witness: the text was injected into the last message, and the entry
\* holds that message as it was sent.
C19_Witness ==
    /\ endpoint = "chat" /\ logs # <<>> /\ reqBody.messages # <<>>
    /\ Last(reqMessages).content # Last(reqBody.messages).content
    /\ Last(logs).LastMessage = Last(reqBody.messages).content

\* The tool's function name can be extracted: the tool is a map whose
\* function has a non-empty string as name.
NameDetermined(tool) == tool.isMap /\ tool.hasName /\ tool.name # ""

\* C20: with a non-empty blacklist the tools passed to the adapter are the
\* declared tools in their order, minus those whose name can be extracted
\* and is blacklisted; a tool whose name cannot be determined is kept.
C20_ToolFiltering ==
    (endpoint = "chat" /\ hpc \notin {"received", "rejected"} /\ toolBlacklist # {}) =>
        reqTools = SelectSeq(reqBody.tools,
                             LAMBDA tool : ~(NameDetermined(tool) /\ tool.name \in toolBlacklist))

\* C20 witness: a blacklisted tool was dropped from between two tools that
\* were kept, one of them without a name that can be extracted.
C20_Witness ==
    /\ endpoint = "chat" /\ hpc = "decoded" /\ toolBlacklist # {}
    /\ Len(reqBody.tools) = 3 /\ Len(reqTools) = 2
    /\ reqTools = <<reqBody.tools[1], reqBody.tools[3]>>
    /\ reqTools[1] # reqTools[2]
    /\ \E i \in 1..2 : ~NameDetermined(reqTools[i])

\* C21: the frontend response of the entry logged for a chat exchange is
\* exactly the increments that were written to the client, in the order
\* written; an increment whose write failed is not part of it.
C21_FrontendIsWritten ==
    (endpoint = "chat" /\ hpc = "done" /\ clientStatus = 200) =>
        Last(logs).FrontendResponse = written

\* C22: the frontend response of the entry logged for a generate exchange
\* does not depend on log_raw_responses: with every write accepted by a
\* connected client it holds the increments sent to the client, whatever
\* the flag.
C22_FrontendWhateverTheFlag ==
    (endpoint = "generate" /\ hpc = "done" /\ clientStatus = 200 /\ clientConnected) =>
        Last(logs).FrontendResponse = written

\* The tool calls of a message list whose function is a map, so that
\* function.arguments exists.
CallsWithFunction(messages) ==
    {messages[i].toolCalls[j] :
        <<i, j>> \in {<<i, j>> \in (1..Len(messages)) \X (1..MaxTools) :
                        j <= Len(messages[i].toolCalls)}}

\* C23: in a chat exchange through the translating adapter, function.arguments
\* of each tool call sent to the backend is a string, and function.arguments
\* of each tool call in an increment put on the channel for the client is a
\* structured value, never a string.
C23_ToolArguments ==
    (Translating /\ endpoint = "chat") =>
        /\ \A tc \in CallsWithFunction(metaRawRequest.messages) :
               (tc.isMap /\ tc.fnIsMap) => tc.args.type = "string"
        /\ \A i \in 1..Len(sent) : \A j \in 1..Len(sent[i].toolCalls) :
               sent[i].toolCalls[j].arguments.type # "string"

\* C24: a streamed line that fails to parse or lacks the "data: " prefix
\* never aborts the stream: the goroutine emits nothing for it, stays in its
\* scan loop, and keeps the token count, the tool-call accumulator, the
\* final-sent flag and everything else it has accumulated, so that every
\* later line is translated as if the bad line had not been there.
C24_BadLineSkipped ==
    [][(wire' # wire /\ Last(wire').kind \in {"noprefix", "badjson"}) =>
           /\ ppc = "scan" /\ ppc' = "scan"
           /\ UNCHANGED <<tokenCount, toolCallsState, sentFinalMessage, finalDoneReason,
                          pending, frags, eof, respChan, chanClosed, sent,
                          metaRawResponse>>]_vars

\* C24 witness: a line that is not JSON came first, and the content chunk
\* after it was translated and sent.
C24_Witness ==
    /\ Translating /\ Len(wire) = 2 /\ ppc = "scan"
    /\ wire[1].kind = "badjson" /\ wire[2].kind = "chunk" /\ wire[2].text # EmptyText
    /\ Len(sent) = 1 /\ sent[1].content = wire[2].text

\* C25: in a streaming exchange through the translating adapter that is not
\* cancelled, the goroutine returns only after the transport closed, and the
\* raw response it has then stored holds every line the backend sent, in
\* order, those after the sentinel and after the final increment included.
C25_Draining ==
    (Translating /\ ppc = "returned") => (eof /\ metaRawResponse = wire)

\* C25 witness: the backend sent a finish chunk, the sentinel and one more
\* chunk; the final increment was sent at the first line and all three lines
\* are in the stored raw response.
C25_Witness ==
    /\ Translating /\ ppc = "returned" /\ Len(wire) = 3
    /\ IsFinish(wire[1]) /\ wire[2].kind = "sentinel" /\ wire[3].kind = "chunk"
    /\ sentFinalMessage /\ Last(sent).done
    /\ metaRawResponse = wire

\* C26: ListModels of the translating adapter answers a non-200 status or an
\* unparseable body with exactly one model named "default" and no error, and
\* a successful listing with one entry per backend model id, in the
\* backend's order, each with size 0 and an empty digest.
C26_ListModels ==
    (Translating /\ modelsAnswer.kind \in {"status", "badjson", "ok"}) =>
        /\ modelsResp.err = ""
        /\ modelsAnswer.kind # "ok" =>
               modelsResp.Models = <<ModelInfo("default", "default", 0, "")>>
        /\ modelsAnswer.kind = "ok" =>
               /\ Len(modelsResp.Models) = Len(modelsAnswer.models)
               /\ \A i \in 1..Len(modelsResp.Models) :
                      modelsResp.Models[i] =
                          ModelInfo(modelsAnswer.models[i].ID, modelsAnswer.models[i].ID, 0, "")

\* C26 witness: the backend listed two different models, one of them with a
\* size and a digest of its own.
C26_Witness ==
    /\ Translating /\ modelsAnswer.kind = "ok" /\ Len(modelsAnswer.models) = 2
    /\ modelsAnswer.models[1].ID # modelsAnswer.models[2].ID
    /\ modelsAnswer.models[2].Size # 0
    /\ Len(modelsResp.Models) = 2 /\ modelsResp.Models[2].Size = 0

\* The lines of the backend that are JSON, in the order received.
JsonLines(lines) == SelectSeq(lines, LAMBDA line : line.kind # "badjson")

\* C27: every chat increment the pass-through adapter forwards has a
\* non-empty role (an empty one became "assistant"), every forwarded
\* increment with done = true has a non-zero load duration (a zero one became
\* the placeholder), and every other field is as the backend sent it.
C27_ChatNormalized ==
    (backendType = "ollama" /\ endpoint = "chat") =>
        /\ Len(sent) <= Len(JsonLines(wire))
        /\ \A i \in 1..Len(sent) :
               LET incr == sent[i]
                   line == JsonLines(wire)[i]
               IN /\ incr.role # ""
                  /\ incr.role = IF line.role = "" THEN "assistant" ELSE line.role
                  /\ incr.done => incr.loadDuration # 0
                  /\ (~line.done \/ line.loadDuration # 0) =>
                         incr.loadDuration = line.loadDuration
                  /\ incr = [DecodeOllama(line) EXCEPT !.role = incr.role,
                                                       !.loadDuration = incr.loadDuration]

\* C27 witness: an increment without a role was forwarded as the assistant's,
\* and a done increment without a load duration with the placeholder.
C27_Witness ==
    /\ backendType = "ollama" /\ endpoint = "chat" /\ Len(sent) = 2
    /\ JsonLines(wire)[1].role = "" /\ sent[1].role = "assistant"
    /\ JsonLines(wire)[2].done /\ JsonLines(wire)[2].loadDuration = 0
    /\ sent[2].done /\ sent[2].loadDuration = 1

C29_StateMachine ==
    /\ (hpc = "decoded") ~> (hpc = "done")
    /\ [][~clientConnected => written' = written]_vars
    /\ [][(hpc = "finish" /\ hpc' = "done" /\ ~clientConnected) =>
              Last(logs').BackendResponse = rawResponse]_vars

\* C30: with max_requests or cleanup_interval set to 0 in the configuration
\* file, no cleanup task runs once main has started the server.
C30_ZeroDisablesCleanup ==
    (mpc = "serving" /\ (fileDatabase.MaxRequests = 0 \/ fileDatabase.CleanupInterval = 0))
        => ~cleanupStarted

\* The increments without done = true, in order.
NonFinal(incrs) == SelectSeq(incrs, LAMBDA incr : ~incr.done)

\* The texts of the payload lines with a first choice that do not take the
\* finish branch (final: the final increment was already sent), in order.
RECURSIVE GenTexts(_, _)
GenTexts(lines, final) ==
    IF lines = <<>> THEN <<>>
    ELSE IF Head(lines).kind # "chunk" THEN GenTexts(Tail(lines), final)
    ELSE IF IsFinish(Head(lines)) /\ ~final THEN GenTexts(Tail(lines), TRUE)
    ELSE <<Head(lines).text>> \o GenTexts(Tail(lines), final)

\* The increment the goroutine is about to send, if any.
PendingContent == IF ppc = "sendContent" THEN <<pending.content>> ELSE <<>>

RECURSIVE ChatFragments(_, _)
ChatFragments(lines, final) ==
    IF lines = <<>> THEN <<>>
    ELSE IF Head(lines).kind # "chunk" THEN ChatFragments(Tail(lines), final)
    ELSE IF IsFinish(Head(lines)) /\ ~final THEN ChatFragments(Tail(lines), TRUE)
    ELSE IF Head(lines).delta /\ Head(lines).toolCalls = <<>> /\ Head(lines).text # EmptyText
    THEN <<Head(lines)>> \o ChatFragments(Tail(lines), final)
    ELSE ChatFragments(Tail(lines), final)

\* The non-final increments that are not a tool-call set.
ContentIncrs(incrs) == SelectSeq(incrs, LAMBDA incr : ~incr.done /\ ~CarriesTools(incr))

C33_OneCallPerIndex ==
    (Translating /\ endpoint = "chat") =>
        /\ Len(buildToolCallsArray(toolCallsState)) = Cardinality(DOMAIN toolCallsState)
        /\ Cardinality(DOMAIN toolCallsState) = Cardinality(FragIndices)
        /\ (ppc = "sendFinal" /\ DOMAIN toolCallsState # {}) =>
               Len(Last(sent).toolCalls) = Cardinality(FragIndices)

\* The adapter was called with the decoded chat request of the exchange.
Converted == Translating /\ endpoint = "chat" /\ metaRawRequest # NoRequest

\* The positions of the tool calls of a message list.
CallPositions(messages) ==
    {p \in (1..Len(messages)) \X (1..MaxCalls + 1) : p[2] <= Len(messages[p[1]].toolCalls)}

\* C34: the translating adapter's conversion of the request's tool calls
\* changes only the encoding of function.arguments: every other field of a
\* tool call, at top level and inside function, is in the converted tool
\* call with the same value; the handler's messages are not changed, and
\* converting the output again gives the same output.
C34_OnlyArgumentsChange ==
    Converted =>
        /\ Len(metaRawRequest.messages) = Len(reqMessages)
        /\ \A p \in CallPositions(reqMessages) :
               LET tc == reqMessages[p[1]].toolCalls[p[2]]
                   out == metaRawRequest.messages[p[1]].toolCalls[p[2]]
               IN out = [tc EXCEPT !.args = out.args,
                                   !.type = IF tc.type = "" THEN out.type ELSE tc.type]
        /\ reqMessages = InjectedMessages(reqBody.messages, chatTextInjection)
        /\ convertMessagesToOpenAI(metaRawRequest.messages) = metaRawRequest.messages

\* C34 amended: the conversion leaves a tool call that is no map as it is; of
\* a tool call that is a map it sets type to "function" whatever it was,
\* copies the other top-level fields, and builds function anew when it is a
\* map, with the name and with the arguments as a string (a string as it is,
\* "{}" for missing arguments, the JSON text of any other value) and without
\* the other fields of function; a function that is no map is copied.  Role
\* and content of the messages are kept, the handler's messages are not
\* changed, and converting the output again gives the same output.
C34_ConversionOfToolCalls ==
    Converted =>
        /\ Len(metaRawRequest.messages) = Len(reqMessages)
        /\ \A i \in 1..Len(reqMessages) :
               /\ metaRawRequest.messages[i].role = reqMessages[i].role
               /\ metaRawRequest.messages[i].content = reqMessages[i].content
               /\ Len(metaRawRequest.messages[i].toolCalls) = Len(reqMessages[i].toolCalls)
        /\ \A p \in CallPositions(reqMessages) :
               LET tc == reqMessages[p[1]].toolCalls[p[2]]
                   out == metaRawRequest.messages[p[1]].toolCalls[p[2]]
               IN IF ~tc.isMap THEN out = tc
                  ELSE /\ out.isMap /\ out.type = "function" /\ out.id = tc.id
                       /\ out.fnIsMap = tc.fnIsMap /\ out.name = tc.name
                       /\ IF tc.fnIsMap
                          THEN /\ out.fnRest = ""
                               /\ out.args.type = "string"
                               /\ out.args.of = IF tc.args.type = "absent"
                                                THEN <<"{", "}">> ELSE tc.args.of
                          ELSE out.fnRest = tc.fnRest /\ out.args = tc.args
        /\ reqMessages = InjectedMessages(reqBody.messages, chatTextInjection)
        /\ convertMessagesToOpenAI(metaRawRequest.messages) = metaRawRequest.messages

\* C34 witness: a tool call with an object as arguments and one with the type
\* "custom" and no arguments were converted.
C34_Witness ==
    /\ Converted /\ Len(reqMessages) = 2 /\ Len(reqMessages[2].toolCalls) = 2
    /\ reqMessages[2].toolCalls[1].args.type = "object"
    /\ reqMessages[2].toolCalls[2].type = "custom"
    /\ metaRawRequest.messages[2].toolCalls[1].args.type = "string"
    /\ metaRawRequest.messages[2].toolCalls[2].type = "function"
    /\ metaRawRequest.messages[2].toolCalls[2].args.of = <<"{", "}">>

\* C35: with the injection mode "system" the text is injected into a message
\* with the role "system" and into no other message.
C35_SystemMode ==
    (endpoint = "chat" /\ hpc \notin {"received", "rejected"}
        /\ chatTextInjection.Enabled /\ chatTextInjection.Text # EmptyText
        /\ chatTextInjection.Mode = "system") =>
        /\ \A i \in 1..Len(reqMessages) :
               reqMessages[i] # reqBody.messages[i] => reqBody.messages[i].role = "system"
        /\ (\E i \in 1..Len(reqBody.messages) : reqBody.messages[i].role = "system") =>
               \E i \in 1..Len(reqMessages) :
                   /\ reqMessages[i].role = "system"
                   /\ Contains(reqMessages[i].content, chatTextInjection.Text)

\* C36: the parsing goroutine is never left blocked on a channel send: it is
\* never at a send with the buffer full once the handler has stopped
\* receiving and returned.
C36_NeverBlockedOnSend ==
    ~(/\ hpc = "done"
      /\ ppc \in {"sendTools", "sendFinal"}
      /\ ~CanSend)

RECURSIVE Concat(_)
Concat(texts) == IF texts = <<>> THEN <<>> ELSE Head(texts) \o Concat(Tail(texts))

\* The texts of the payload lines with a first choice, up to and including
\* the first line with a finish reason.
RECURSIVE TextsUpToFinish(_)
TextsUpToFinish(lines) ==
    IF lines = <<>> THEN <<>>
    ELSE IF Head(lines).kind # "chunk" THEN TextsUpToFinish(Tail(lines))
    ELSE IF IsFinish(Head(lines)) THEN <<Head(lines).text>>
    ELSE <<Head(lines).text>> \o TextsUpToFinish(Tail(lines))

FirstFinal == CHOOSE i \in Finals(sent) : \A j \in Finals(sent) : i <= j

\* C37: in a streaming exchange through the translating adapter that is not
\* cancelled, the content of the increments sent up to and including the
\* final increment, concatenated, is the text of the payload lines received
\* up to and including the line with the finish reason, concatenated.
C37_NoContentLost ==
    (Translating /\ stream /\ Finals(sent) # {}) =>
        Concat(Contents(SubSeq(sent, 1, FirstFinal))) = Concat(TextsUpToFinish(wire))

\* The backend call has returned to the handler.
Called == hpc \notin {"received", "decoded", "rejected"}

\* C38: whenever Generate or Chat of either adapter has returned, the
\* metadata the handler holds is non-nil; when it returned an error, the
\* channel is already closed and no parsing task was started: the handler
\* has logged the error with the metadata's fields, answered 500 and
\* returned, it never panicked on a nil metadata, and it never entered its
\* relay loop (nothing was sent, received or written).
C38_MetadataNeverNil ==
    /\ Called => backendMeta = "set"
    /\ hpc # "panic"
    /\ (Called /\ clientStatus # 200) =>
          /\ clientStatus = 500
          /\ hpc = "done"
          /\ chanClosed
          /\ ppc = "idle"
          /\ respChan = <<>> /\ sent = <<>> /\ wire = <<>>
          /\ written = <<>> /\ responses = <<>> /\ fullResponse = EmptyText
          /\ Len(logs) = 1
          /\ logs[1].StatusCode = 500
          /\ logs[1].BackendResponse = metaRawResponse

\* A backend that answered with a non-200 status: the error was logged with
\* the body the adapter stored in the metadata.
C38_Witness ==
    /\ Called
    /\ backendMeta = "set"
    /\ clientStatus = 500
    /\ chanClosed
    /\ ppc = "idle"
    /\ Len(logs) = 1
    /\ logs[1].BackendResponse = <<ErrorLine>>

\* C39: shutdown handshake of the cleanup task.  When the task was started
\* and main has received the shutdown signal, main's send on the done channel
\* is eventually received by the task, the task returns and closes the
\* channel, and main's following receive completes; the channel is never
\* closed twice and nothing is ever sent on it once it is closed.
C39_ShutdownHandshake ==
    /\ [](cleanupDoneCloses <= 1 /\ ~sendOnClosed /\ mpc # "panic")
    /\ [](mpc = "stopped" /\ cleanupStarted => tpc = "returned" /\ cleanupDoneCloses = 1)
    /\ (cleanupStarted /\ mpc = "sendDone")
          ~> (mpc = "stopped" /\ tpc = "returned" /\ cleanupDoneCloses = 1)

\* A process that started the task with rows over the limit, was signalled
\* and has stopped: the task has cleaned up, returned and closed the channel.
C39_Witness ==
    /\ cleanupStarted
    /\ mpc = "stopped"
    /\ tpc = "returned"
    /\ cleanupDoneCloses = 1
    /\ ~sendOnClosed
    /\ dbRows # <<>>

====
